---- MODULE Spec2Model ----
(***************************************************************************)
(* The incremental Notion -> Markdown backup of notion-backup.js as a      *)
(* state machine: the remote workspace, the backup directory on disk       *)
(* (document files, attachment pool, .backup-state.json) and one runBackup *)
(* process that may be killed and restarted.  Every action is one stretch  *)
(* of runBackup between two awaits whose outcome the environment decides.  *)
(***************************************************************************)
EXTENDS Integers, Sequences, FiniteSets, TLC

\* ------------------------------------------------------------------ bounds
\* Runs of runBackup started in one behaviour.
MaxRuns == 3
\* External changes (remote edits, deletions, local file removals, state
\* file corruption) in one behaviour.
MaxEnv == 1
\* Faults (a remote call that raises, a failed download, a failed local
\* write or unlink, a kill of the process) in one behaviour.
MaxFaults == 1
\* Largest last_edited_time value a document takes.
MaxMarker == 2
\* Clock ticks (milliseconds passing between two Date.now() calls) inside
\* one run.
MaxTick == 1
\* The largest value of the parameter retries of callWithRetry.
MaxRetries == 3
\* The largest number of blocks in a pagination page of the tree of pages.
MaxPageSize == 2
\* The largest timestamp in the names of the files given to the sweep.
MaxStamp == 2
\* The largest number of redirects the remote gives in a row to one call of
\* downloadImage.
MaxRedirects == 3

\* ------------------------------------------------------- the remote store
Docs == {"a", "b", "c"}
Dbs == {"db1", "db2"}
Urls == {"u1", "u2"}

\* The collection each document lives in.
DbOf(d) == IF d = "c" THEN "db2" ELSE "db1"

\* The order in which notion.databases.query returns the documents.
DocOrder == <<"a", "b", "c">>

\* Titles are sequences of characters.
TitleN == <<"N">>
TitleNColon == <<"N", ":">>
TitleM == <<"M">>
Titles == {TitleN, TitleNColon, TitleM}
DbTitle(db) == IF db = "db1" THEN <<"D", "1">> ELSE <<"D", "2">>

\* The block children of the parent page and of its sub-page, as the
\* pagination pages notion.blocks.children.list returns.
RootPage == "root"
SubPage == "p1"
Containers == {RootPage, SubPage}
ChildPages(c) ==
    IF c = RootPage
    THEN << <<[type |-> "child_database", id |-> "db1"]>>,
            <<[type |-> "child_page", id |-> SubPage]>> >>
    ELSE << <<[type |-> "child_database", id |-> "db2"]>> >>

\* The root blocks of each document.
ImageBlock(u) == [type |-> "image", url |-> u]
ParagraphBlock == [type |-> "paragraph", url |-> "none"]
BlocksOf(d) ==
    IF d = "a" THEN <<ImageBlock("u1"), ImageBlock("u1")>>
    ELSE IF d = "b" THEN <<ImageBlock("u1"), ImageBlock("u2")>>
    ELSE <<ParagraphBlock>>

\* path.extname of the URL's pathname: u2 has none.
UrlExtname(u) == IF u = "u1" THEN ".jpg" ELSE ""

\* ------------------------------------------------------------ pure helpers
Min(x, y) == IF x <= y THEN x ELSE y

IllegalChars == {"<", ">", ":", "\"", "/", "\\", "|", "?", "*"}
WhitespaceChars == {" ", "\t", "\n"}
MaxFilenameLen == 200
\* (error.status && error.status >= 500)
ServerErrorStatus == 500
\* Math.pow(2, attempt) * 1000
BaseWaitMs == 1000

\* .replace(/\s+/g, ' '): of every run of whitespace the last character
\* is kept, as a space.
CollapseWhitespace(s) ==
    LET marked == [i \in 1..Len(s) |->
                     [ch |-> s[i],
                      last |-> i = Len(s) \/ s[i + 1] \notin WhitespaceChars]]
        kept == SelectSeq(marked, LAMBDA m : m.ch \notin WhitespaceChars \/ m.last)
    IN  [i \in 1..Len(kept) |->
           IF kept[i].ch \in WhitespaceChars THEN " " ELSE kept[i].ch]

RECURSIVE TrimLeft(_)
TrimLeft(s) ==
    IF s # <<>> /\ Head(s) \in WhitespaceChars THEN TrimLeft(Tail(s)) ELSE s

RECURSIVE TrimRight(_)
TrimRight(s) ==
    IF s # <<>> /\ s[Len(s)] \in WhitespaceChars
    THEN TrimRight(SubSeq(s, 1, Len(s) - 1))
    ELSE s

\* The variant that collapses the whitespace before it strips the illegal
\* characters.
GenerateSafeFilenameCollapseFirst(title) ==
    IF title = <<>> THEN <<"untitled">>
    ELSE LET collapsed == CollapseWhitespace(title)
             stripped == SelectSeq(collapsed, LAMBDA ch : ch \notin IllegalChars)
             trimmed == TrimRight(TrimLeft(stripped))
         IN  SubSeq(trimmed, 1, Min(Len(trimmed), MaxFilenameLen))

GenerateSafeFilename(title) ==
    IF title = <<>> THEN <<"untitled">>
    ELSE LET stripped == SelectSeq(title, LAMBDA ch : ch \notin IllegalChars)
             trimmed == TrimRight(TrimLeft(CollapseWhitespace(stripped)))
         IN  SubSeq(trimmed, 1, Min(Len(trimmed), MaxFilenameLen))

\* pageFilePath of exportPage: <backup dir>/<safe database title>/<safe title>.md
PageFilePath(db, title) ==
    [dir |-> GenerateSafeFilename(DbTitle(db)),
     file |-> GenerateSafeFilename(title) \o <<".md">>]

AllPaths == {PageFilePath(db, t) : db \in Dbs, t \in Titles}

\* ------------------------------------------------------------- data shapes
NoFile == [kind |-> "nofile"]
PartialFile == [kind |-> "partial"]
NoRec == [kind |-> "norec"]
NoName == [kind |-> "noname"]

\* A document file holds the text written for one document at one marker:
\* the header (notion_id, modified) and the converted blocks.
FileText(d, m, md) == [doc |-> d, marker |-> m, body |-> md]

\* backupState.pages[id] as exportPage writes it.
PageRecord(m, p, t) == [lastModified |-> m, filePath |-> p, title |-> t]

EmptyPages == [d \in Docs |-> NoRec]

\* The image file filter of runBackup, pageHasMissingImages and
\* cleanupDuplicateImages.
ImageExts == {".jpg", ".jpeg", ".png", ".gif", ".webp"}
IsImageFile(name) == name.ext \in ImageExts

\* A variant of ImageName that leaves the counter out of the name.
ImageNameNoCounter(ts, ctr, ext) == [ts |-> ts, ctr |-> 1, ext |-> ext]

\* image_<timestamp>_<counter><extension>
ImageName(ts, ctr, ext) == [ts |-> ts, ctr |-> ctr, ext |-> ext]

\* The extension blocksToMarkdown gives a new image.
ImageExtension(u) == IF UrlExtname(u) = "" THEN ".jpg" ELSE UrlExtname(u)

\* ---------------------------------------------------------------- state
VARIABLES
    \* the remote store and the backup directory
    remote,            \* document -> [exists, marker (last_edited_time), title]
    files,             \* path -> NoFile | PartialFile | FileText
    pool,              \* the Attachments directory: a set of [name, src]
    stateFile,         \* .backup-state.json: [kind, pages]
    clock,             \* Date.now()
    \* the runBackup process
    pc,
    backupState,       \* backupState.pages in memory
    forceImageRedownload,
    databases,
    dbIdx,
    allPages,
    pageIdx,
    blockIdx,
    markdown,          \* the image references of the document being converted
    downloadedImages,  \* url -> image name | NoName
    counter,           \* imageContext.counter
    currentPageIds,
    stats,             \* exportedCount, skippedCount, totalExported, totalSkipped
    \* bookkeeping of the behaviour
    runs, envs, faults, ticks,
    outcome,           \* how the last run ended
    hist,              \* what the current (or last) run did, for the properties
    \* one call of callWithRetry
    retry,             \* [pc, retries, script, attempt, calls, delays, result]
    \* one call of findAllDatabases on a tree of pages
    discovery,         \* [pc, parent, order, children, failing, result]
    \* one call of downloadImage
    download,          \* [pc, trail, redirects, settled, result, resolves]
    \* one call of blocksToMarkdown on the blocks of a document
    conversion,        \* [pc, parent, order, children, failing, result]
    \* one call of generateSafeFilename
    naming,            \* [pc, title, result]
    \* concurrent calls of getOrCreateDatabaseForPath
    lookup             \* [pc, existing, cache, promise, caller]

envVars == <<remote, files, pool, stateFile, clock>>
procVars == <<pc, backupState, forceImageRedownload, databases, dbIdx, allPages,
              pageIdx, blockIdx, markdown, downloadedImages, counter,
              currentPageIds, stats>>
bookVars == <<runs, envs, faults, ticks, outcome, hist>>
backupVars == <<envVars, procVars, bookVars>>
harnessVars == <<retry, discovery, download, conversion, naming, lookup>>
vars == <<backupVars, harnessVars>>

\* ------------------------------------------- callWithRetry (src/utils.js)
\* What one call of the wrapped operation gives: a result, or an error
\* with the code and the HTTP status of the Notion client (status 0: the
\* error has no status).
Results ==
    {[kind |-> "ok", code |-> "result", status |-> 200]}
Errors ==
    {[kind |-> "error", code |-> "rate_limited", status |-> 429],
     [kind |-> "error", code |-> "conflict_error", status |-> 409],
     [kind |-> "error", code |-> "bad_gateway", status |-> 502],
     [kind |-> "error", code |-> "validation_error", status |-> 400],
     [kind |-> "error", code |-> "ECONNRESET", status |-> 0]}
Responses == Results \cup Errors
NoResponse == [kind |-> "none", code |-> "", status |-> 0]

\* The scripts of the operation: its answer to the first, second, ... call.
Scripts == [1..(MaxRetries + 1) -> Responses]

\* A variant of Retryable that retries every error that has a status of
\* 400 or more.
RetryableClientErrors(error) ==
    \/ error.code = "conflict_error"
    \/ error.code = "rate_limited"
    \/ (error.status # 0 /\ error.status >= 400)

\* error.code === 'conflict_error' || error.code === 'rate_limited' ||
\* (error.status && error.status >= 500)
Retryable(error) ==
    \/ error.code = "conflict_error"
    \/ error.code = "rate_limited"
    \/ (error.status # 0 /\ error.status >= ServerErrorStatus)

\* A variant of Exhausted that gives up one attempt early.
ExhaustedEarly(attempt, retries) == attempt >= retries - 1

\* A variant of Exhausted that gives up one attempt late.
ExhaustedLate(attempt, retries) == attempt > retries

\* if (attempt >= retries) throw error
Exhausted(attempt, retries) == attempt >= retries

\* A variant of WaitTime that grows by the base with every attempt.
WaitTimeLinear(attempt) == (attempt + 1) * BaseWaitMs

\* Math.pow(2, attempt) * 1000
WaitTime(attempt) == (2 ^ attempt) * BaseWaitMs

RetryIdle ==
    [pc |-> "idle", retries |-> 0, script |-> <<>>, attempt |-> 0, calls |-> 0,
     delays |-> <<>>, result |-> NoResponse]

\* ------------------------------------------------------- state file access
ValidState(pages) == [kind |-> "valid", pages |-> pages]

\* loadBackupState: the parsed file, or the empty state when reading or
\* parsing raises.  A file that parses to a value without "pages" is
\* returned as it is.
LoadBackupState(sf) ==
    IF sf.kind = "valid" THEN [hasPages |-> TRUE, pages |-> sf.pages]
    ELSE IF sf.kind = "nopages" THEN [hasPages |-> FALSE, pages |-> EmptyPages]
    ELSE [hasPages |-> TRUE, pages |-> EmptyPages]

\* A variant of SaveBackupState that writes a state without records.
SaveBackupStateEmpty(pages) == ValidState(EmptyPages)

\* saveBackupState: JSON.stringify of the in-memory state.
SaveBackupState(pages) == ValidState(pages)

\* ------------------------------------------------------------ the pool
PoolNames(pl) == {f.name : f \in pl}
PoolImageFiles(pl) == {n \in PoolNames(pl) : IsImageFile(n)}
\* A write to name n replaces what was there.
PoolPut(pl, n, src) == {f \in pl : f.name # n} \cup {[name |-> n, src |-> src]}

\* pageHasMissingImages: false on every path.
PageHasMissingImages(pl) ==
    IF PoolImageFiles(pl) = {} THEN FALSE ELSE FALSE

\* A variant of NeedsUpdate that does not look for the file of the page.
NeedsUpdateNoFileCheck(d, pages, force, fl, pl) ==
    IF pages[d] = NoRec THEN TRUE
    ELSE IF force THEN TRUE
    ELSE remote[d].marker # pages[d].lastModified

\* needsUpdate(page, backupState, forceImageRedownload)
NeedsUpdate(d, pages, force, fl, pl) ==
    IF pages[d] = NoRec THEN TRUE
    ELSE IF force THEN TRUE
    ELSE LET timeChanged == remote[d].marker # pages[d].lastModified
         IN  IF ~timeChanged
             THEN IF fl[pages[d].filePath] # NoFile
                  THEN IF PageHasMissingImages(pl) THEN TRUE ELSE FALSE
                  ELSE TRUE
             ELSE timeChanged

\* ----------------------------------------------------------- discovery
Concat(ss) ==
    LET F[i \in 0..Len(ss)] == IF i = 0 THEN <<>> ELSE F[i - 1] \o ss[i]
    IN  F[Len(ss)]

\* A variant of AllBlocks that does not follow the cursor.
AllBlocksFirstPage(pages) == pages[1]

\* The do-while loop over next_cursor: the blocks of all pagination pages.
AllBlocks(pages) == Concat(pages)

\* A variant of Caught that throws the error again.
CaughtRethrown(r) == r

\* The catch of findAllDatabases logs the error; the function returns the
\* databases it has so far.
Caught(r) == [dbs |-> r.dbs, raised |-> FALSE]

\* findAllDatabases(pageId) on the pages children; failing is the set of
\* containers whose blocks.children.list raises (after callWithRetry gave
\* up).  The result is the list of databases, and whether the call raised.
\* WalkBlocks is the for loop over allBlocks from block i on, inside the
\* try: an error of the recursive call ends it.
RECURSIVE FindAllDatabasesIn(_, _, _)
RECURSIVE WalkBlocks(_, _, _, _, _)
WalkBlocks(children, blocks, i, found, failing) ==
    IF i > Len(blocks) THEN [dbs |-> found, raised |-> FALSE]
    ELSE IF blocks[i].type = "child_database"
    THEN WalkBlocks(children, blocks, i + 1,
                    Append(found, [id |-> blocks[i].id, title |-> DbTitle(blocks[i].id)]),
                    failing)
    ELSE IF blocks[i].type = "child_page"
    THEN LET sub == FindAllDatabasesIn(children, blocks[i].id, failing)
         IN  IF sub.raised THEN [dbs |-> found, raised |-> TRUE]
             ELSE WalkBlocks(children, blocks, i + 1, found \o sub.dbs, failing)
    ELSE WalkBlocks(children, blocks, i + 1, found, failing)

FindAllDatabasesIn(children, pageId, failing) ==
    IF pageId \in failing
    THEN Caught([dbs |-> <<>>, raised |-> TRUE])
    ELSE Caught(WalkBlocks(children, AllBlocks(children[pageId]), 1, <<>>, failing))

\* findAllDatabases(pageId) on the pages of the workspace.
FindAllDatabases(pageId, failing) ==
    FindAllDatabasesIn([c \in Containers |-> ChildPages(c)], pageId, failing).dbs

\* ------------------------------------------- discovery on a tree of pages
\* Trees of pages for findAllDatabases alone: two sub-pages and three
\* databases under a root; parent gives the page each of them is in, order
\* the order in which the remote lists them, pageSize the number of blocks
\* of a pagination page.
TreePages == {"p1", "p2"}
TreeDbs == {"db1", "db2", "db3"}
TreeItems == TreePages \cup TreeDbs
TreeContainers == {RootPage} \cup TreePages
TreeParents ==
    {pm \in [TreeItems -> TreeContainers] :
        pm["p1"] = RootPage /\ pm["p2"] \in {RootPage, "p1"}}
TreeOrders ==
    {ord \in [1..Cardinality(TreeItems) -> TreeItems] :
        \A i, j \in DOMAIN ord : i # j => ord[i] # ord[j]}
TreeBlock(x) ==
    [type |-> IF x \in TreePages THEN "child_page" ELSE "child_database", id |-> x]

\* The pagination pages of a list of blocks; a list without blocks comes
\* as one empty page.
RECURSIVE Paginate(_, _)
Paginate(blocks, size) ==
    IF Len(blocks) <= size THEN <<blocks>>
    ELSE <<SubSeq(blocks, 1, size)>> \o Paginate(SubSeq(blocks, size + 1, Len(blocks)), size)

TreeChildren(pm, ord, size) ==
    [c \in TreeContainers |->
        LET items == SelectSeq(ord, LAMBDA x : pm[x] = c)
        IN  Paginate([i \in 1..Len(items) |-> TreeBlock(items[i])], size)]

DiscoveryIdle ==
    [pc |-> "idle", parent |-> <<>>, order |-> <<>>, children |-> <<>>,
     failing |-> {}, result |-> [dbs |-> <<>>, raised |-> FALSE]]

\* ------------------------------------------------ downloadImage, alone
\* What the remote answers to one GET of downloadImage: the bytes with
\* status 200 (and the file is written, or the write stream fails), a
\* redirect with a location, another status, a request error, or nothing
\* for 30 seconds.
GetAnswers == {"ok", "writeError", "redirect", "status", "error", "timeout"}
\* The URLs a redirect can name.
Locations == Urls \cup {"l1"}

DownloadIdle ==
    [pc |-> "idle", trail |-> <<>>, redirects |-> 0, settled |-> FALSE,
     result |-> FALSE, resolves |-> 0]

\* resolve(value): only the first call settles the promise.
Resolve(d, value) ==
    [d EXCEPT !.settled = TRUE,
              !.result = IF d.settled THEN d.result ELSE value,
              !.resolves = @ + 1]

\* ------------------------------------------- blocksToMarkdown on a tree
\* The blocks of one document for blocksToMarkdown alone: parent gives the
\* block, or the document, each block is a child of, order the order in
\* which the remote lists them, and the remote gives them in response
\* pages of pageSize blocks.
TreeDoc == "doc"
TreeBlocks == {"b1", "b2", "b3", "b4"}
BlockNumber(b) == CHOOSE i \in 1..4 : b = <<"b1", "b2", "b3", "b4">>[i]
BlockParents ==
    {pm \in [TreeBlocks -> {TreeDoc} \cup TreeBlocks] :
        \A b \in TreeBlocks :
            pm[b] # TreeDoc => BlockNumber(pm[b]) < BlockNumber(b)}
BlockOrders ==
    {ord \in [1..Cardinality(TreeBlocks) -> TreeBlocks] :
        \A i, j \in DOMAIN ord : i # j => ord[i] # ord[j]}
BlockChildren(pm, ord, size) ==
    [c \in {TreeDoc} \cup TreeBlocks |->
        Paginate(SelectSeq(ord, LAMBDA x : pm[x] = c), size)]

\* The text blocksToMarkdown adds for the block itself.
BlockText(b) == [kind |-> "text", id |-> b]

\* block.has_children
HasChildren(children, b) == children[b][1] # <<>>

\* response.results of notion.blocks.children.list({ block_id }): the call
\* is made once, without start_cursor, in exportPage and for the children
\* of a block.
ListResults(pages) == pages[1]

\* A variant of ChildCatch that throws the error again.
ChildCatchRethrown(r) == r

\* The try around the listing and the conversion of the children: after an
\* error nothing is added for the children, and the error is logged.
ChildCatch(r) == [md |-> IF r.raised THEN <<>> ELSE r.md, raised |-> FALSE]

\* blocksToMarkdown(blocks, ...): the for loop from block i on, text
\* being the markdown so far; failing are the blocks whose children cannot be
\* listed.  The result is the text, and whether the call raised.
RECURSIVE BlocksToMarkdown(_, _, _, _, _)
BlocksToMarkdown(children, blocks, i, text, failing) ==
    IF i > Len(blocks) THEN [md |-> text, raised |-> FALSE]
    ELSE LET own == Append(text, BlockText(blocks[i]))
         IN  IF ~HasChildren(children, blocks[i])
             THEN BlocksToMarkdown(children, blocks, i + 1, own, failing)
             ELSE LET child == ChildCatch(
                         IF blocks[i] \in failing
                         THEN [md |-> <<>>, raised |-> TRUE]
                         ELSE BlocksToMarkdown(children,
                                  ListResults(children[blocks[i]]), 1, <<>>, failing))
                  IN  IF child.raised
                      THEN [md |-> own, raised |-> TRUE]
                      ELSE BlocksToMarkdown(children, blocks, i + 1,
                                            own \o child.md, failing)

ConversionIdle ==
    [pc |-> "idle", parent |-> <<>>, order |-> <<>>, children |-> <<>>,
     failing |-> {}, result |-> [md |-> <<>>, raised |-> FALSE]]

\* ------------------------------------- generateSafeFilename, the inputs
\* The titles generateSafeFilename is called on: a prefix and a suffix of
\* at most MaxAffix characters around a run of letters, whose length is
\* around the cap of 200.
MaxAffix == 3

TitleChars == {"a", ":", " ", "\t"}

AffixesOf(n) == UNION {[1..k -> TitleChars] : k \in 0..n}

RunLengths == {0, 1, MaxFilenameLen - 2, MaxFilenameLen - 1, MaxFilenameLen}

LetterRun(n) == [i \in 1..n |-> "x"]

NamingIdle == [pc |-> "idle", title |-> <<>>, result |-> <<>>]

\* ------------------------------------- getOrCreateDatabaseForPath
\* The callers (the processSingleFile calls of the batches) and the
\* relative paths they ask for.
Callers == {"f1", "f2", "f3"}
LookupPaths == {".", "Root", "notes"}

\* const dbTitle = relativePath === '.' ? 'Root' : relativePath
DbTitleOf(path) == IF path = "." THEN "Root" ELSE path

LookupTitles == {DbTitleOf(path) : path \in LookupPaths}

NoPromise == [state |-> "none"]
NoCaller == [at |-> "start"]

\* Nothing is cached, nobody has called.  A promise is named after the
\* caller whose call created it.
LookupIdle ==
    [pc |-> "idle", existing |-> {},
     cache |-> [title \in LookupTitles |-> "none"],
     promise |-> [t \in Callers |-> NoPromise],
     caller |-> [t \in Callers |-> NoCaller]]

\* A variant of PromiseCacheSet that stores nothing.
PromiseCacheSetSkipped(cache, dbTitle, p) == cache

\* databasePromiseCache.set(dbTitle, promise)
PromiseCacheSet(cache, dbTitle, p) == [cache EXCEPT ![dbTitle] = p]

\* notion.databases.query, all pagination pages: the documents of db.
QueryDatabase(db) ==
    SelectSeq(DocOrder, LAMBDA d : DbOf(d) = db /\ remote[d].exists)

\* ------------------------------------------------------------- histories
\* What the properties need to remember.  The fields of one run are reset
\* when the next run starts; "completed" (the <<document, marker>> pairs
\* whose file write has ever completed), "live" (the documents written and
\* not since removed by cleanupOrphanedFiles), "since" and "interrupted"
\* live on.
NoDownloads == [u \in Urls |-> [calls |-> 0, failed |-> FALSE, created |-> {}, refs |-> {}]]

NoChange == [edited |-> {}, other |-> FALSE]

NoBasis == [clean |-> FALSE, edited |-> {}, other |-> FALSE, resume |-> {}, retry |-> {},
            unlink |-> {}]

FreshHist ==
    [exported |-> {}, skipped |-> {}, failed |-> {}, written |-> {},
     wrote |-> {}, fault |-> FALSE, forced |-> FALSE, loaded |-> EmptyPages,
     startKind |-> "none",
     healing |-> {}, reconciled |-> FALSE, orphans |-> {}, removed |-> {},
     unlinkFailed |-> {}, dl |-> NoDownloads, basis |-> NoBasis,
     completed |-> {}, live |-> {}, since |-> NoChange, interrupted |-> {}]

\* The process variables of a process that is not running.
Stopped ==
    /\ pc' = "idle"
    /\ backupState' = EmptyPages
    /\ forceImageRedownload' = FALSE
    /\ databases' = <<>>
    /\ dbIdx' = 0
    /\ allPages' = <<>>
    /\ pageIdx' = 0
    /\ blockIdx' = 0
    /\ markdown' = <<>>
    /\ downloadedImages' = [u \in Urls |-> NoName]
    /\ counter' = 1
    /\ currentPageIds' = {}

NoStats == [exportedCount |-> 0, skippedCount |-> 0, totalExported |-> 0,
            totalSkipped |-> 0, cleanedUp |-> 0, duplicatesRemoved |-> 0]

Init ==
    /\ \E present \in SUBSET Docs, tb \in {TitleNColon, TitleM} :
          remote = [d \in Docs |->
                      [exists |-> d \in present, marker |-> 1,
                       title |-> IF d = "b" THEN tb ELSE TitleN]]
    /\ files = [p \in AllPaths |-> NoFile]
    /\ pool = {}
    /\ stateFile = [kind |-> "missing", pages |-> EmptyPages]
    /\ clock = 0
    /\ pc = "idle"
    /\ backupState = EmptyPages
    /\ forceImageRedownload = FALSE
    /\ databases = <<>>
    /\ dbIdx = 0
    /\ allPages = <<>>
    /\ pageIdx = 0
    /\ blockIdx = 0
    /\ markdown = <<>>
    /\ downloadedImages = [u \in Urls |-> NoName]
    /\ counter = 1
    /\ currentPageIds = {}
    /\ stats = NoStats
    /\ runs = 0
    /\ envs = 0
    /\ faults = 0
    /\ ticks = 0
    /\ outcome = "none"
    /\ hist = FreshHist
    /\ retry = RetryIdle
    /\ discovery = DiscoveryIdle
    /\ download = DownloadIdle
    /\ conversion = ConversionIdle
    /\ naming = NamingIdle
    /\ lookup = LookupIdle

\* The documents whose record matches the remote marker while the file the
\* record names is gone.
HealingDocs(pages) ==
    {d \in Docs : /\ remote[d].exists
                  /\ pages[d] # NoRec
                  /\ pages[d].lastModified = remote[d].marker
                  /\ files[pages[d].filePath] = NoFile}

\* The history of a run that starts now.
StartHist(loadedPages) ==
    LET quiet == hist.since = NoChange
    IN  [FreshHist EXCEPT
           !.loaded = loadedPages,
           !.startKind = stateFile.kind,
           !.healing = HealingDocs(loadedPages),
           !.completed = hist.completed,
           !.live = hist.live,
           !.basis = [clean |-> outcome = "complete" /\ ~hist.fault,
                      edited |-> hist.since.edited,
                      other |-> hist.since.other,
                      resume |-> IF outcome = "killed" /\ quiet
                                 THEN hist.interrupted ELSE {},
                      retry |-> IF outcome = "complete" /\ quiet
                                THEN hist.failed ELSE {},
                      unlink |-> IF outcome = "complete" /\ quiet
                                 THEN hist.unlinkFailed ELSE {}]]

\* A variant of NoDatabasesFound that saves the loaded state before it
\* returns.
NoDatabasesFoundSaved ==
    /\ outcome' = "early"
    /\ Stopped
    /\ stateFile' = SaveBackupState(LoadBackupState(stateFile).pages)
    /\ UNCHANGED <<remote, files, pool>>

\* "No databases found under the specified parent page.": runBackup
\* returns before its first saveBackupState.
NoDatabasesFound ==
    /\ outcome' = "early"
    /\ Stopped
    /\ UNCHANGED <<remote, files, pool, stateFile>>

\* runBackup from its first line to the first database: loadBackupState,
\* the scan of the pool, findAllDatabases and the first saveBackupState.
StartRun(failing) ==
    /\ pc = "idle"
    /\ runs < MaxRuns
    /\ faults + Cardinality(failing) <= MaxFaults
    /\ LET loaded == LoadBackupState(stateFile)
           found == FindAllDatabases(RootPage, failing)
           h0 == [StartHist(loaded.pages) EXCEPT
                    !.fault = failing # {},
                    !.forced = (PoolImageFiles(pool) = {})]
       IN  /\ runs' = runs + 1
           /\ faults' = faults + Cardinality(failing)
           /\ ticks' = 0
           /\ clock' = clock + 1
           /\ stats' = NoStats
           /\ hist' = h0
           /\ IF ~loaded.hasPages
              THEN \* Object.keys(backupState.pages) raises: "Backup failed"
                   /\ failing = {}
                   /\ outcome' = "aborted"
                   /\ Stopped
                   /\ UNCHANGED <<remote, files, pool, stateFile>>
              ELSE IF found = <<>>
              THEN NoDatabasesFound
              ELSE /\ outcome' = "running"
                   /\ pc' = "db"
                   /\ backupState' = loaded.pages
                   /\ forceImageRedownload' = (PoolImageFiles(pool) = {})
                   /\ databases' = found
                   /\ dbIdx' = 1
                   /\ allPages' = <<>>
                   /\ pageIdx' = 0
                   /\ blockIdx' = 0
                   /\ markdown' = <<>>
                   /\ downloadedImages' = [u \in Urls |-> NoName]
                   /\ counter' = 1
                   /\ currentPageIds' = {}
                   /\ stateFile' = SaveBackupState(loaded.pages)
                   /\ UNCHANGED <<remote, files, pool>>
    /\ UNCHANGED envs
    /\ UNCHANGED harnessVars

\* ------------------------------------------------------ ends of a run
\* An exception that reaches the catch of runBackup ("Backup failed").
Abort ==
    /\ outcome' = "aborted"
    /\ Stopped

\* One more fault is spent in this run.
Fault(h) ==
    /\ faults < MaxFaults
    /\ faults' = faults + 1
    /\ hist' = [h EXCEPT !.fault = TRUE]

CurDoc == allPages[pageIdx]
CurDb == databases[dbIdx].id
CurPath == PageFilePath(DbOf(CurDoc), remote[CurDoc].title)

\* ------------------------------------------------------ exportDatabase
\* The saveBackupState before a database, then exportDatabase up to the
\* end of its query loop.
DbBegin ==
    /\ pc = "db"
    /\ stateFile' = SaveBackupState(backupState)
    /\ allPages' = QueryDatabase(CurDb)
    /\ pageIdx' = 1
    /\ stats' = [stats EXCEPT !.exportedCount = 0, !.skippedCount = 0]
    /\ pc' = "page"
    /\ UNCHANGED <<remote, files, pool, clock, backupState, forceImageRedownload,
                   databases, dbIdx, blockIdx, markdown, downloadedImages,
                   counter, currentPageIds, runs, envs, faults, ticks, outcome, hist>>
    /\ UNCHANGED harnessVars

\* notion.databases.query raises in exportDatabase: nothing catches it
\* before runBackup.
DbQueryFail ==
    /\ pc = "db"
    /\ Fault(hist)
    /\ stateFile' = SaveBackupState(backupState)
    /\ Abort
    /\ UNCHANGED <<remote, files, pool, clock, stats, runs, envs, ticks>>
    /\ UNCHANGED harnessVars

\* The export loop is over: the statistics of the database are added up.
PagesDone ==
    /\ pc = "page"
    /\ pageIdx > Len(allPages)
    /\ stats' = [stats EXCEPT !.totalExported = @ + stats.exportedCount,
                              !.totalSkipped = @ + stats.skippedCount]
    /\ pc' = "ids"
    /\ UNCHANGED <<envVars, backupState, forceImageRedownload, databases, dbIdx,
                   allPages, pageIdx, blockIdx, markdown, downloadedImages,
                   counter, currentPageIds, bookVars>>
    /\ UNCHANGED harnessVars

\* exportPage returned false: exportDatabase counts the page as skipped
\* and goes on with the next one.
NotExported ==
    /\ stats' = [stats EXCEPT !.skippedCount = @ + 1]
    /\ pageIdx' = pageIdx + 1
    /\ blockIdx' = 0
    /\ markdown' = <<>>
    /\ pc' = "page"

\* ---------------------------------------------------------- exportPage
\* exportPage up to the result of needsUpdate.
PageDecide ==
    /\ pc = "page"
    /\ pageIdx <= Len(allPages)
    /\ IF NeedsUpdate(CurDoc, backupState, forceImageRedownload, files, pool)
       THEN /\ pc' = "fetch"
            /\ UNCHANGED <<stats, pageIdx, blockIdx, markdown, hist>>
       ELSE /\ NotExported
            /\ hist' = [hist EXCEPT !.skipped = @ \cup {CurDoc}]
    /\ UNCHANGED <<envVars, backupState, forceImageRedownload, databases, dbIdx,
                   allPages, downloadedImages, counter, currentPageIds,
                   runs, envs, faults, ticks, outcome>>
    /\ UNCHANGED harnessVars

\* notion.blocks.children.list of the page returns its blocks.
PageFetch ==
    /\ pc = "fetch"
    /\ blockIdx' = 1
    /\ markdown' = <<>>
    /\ pc' = IF Len(BlocksOf(CurDoc)) = 0 THEN "write" ELSE "blocks"
    /\ UNCHANGED <<envVars, backupState, forceImageRedownload, databases, dbIdx,
                   allPages, pageIdx, downloadedImages, counter, currentPageIds,
                   stats, bookVars>>
    /\ UNCHANGED harnessVars

\* The fetch raises: the catch of exportPage logs and returns false.
PageFetchFail ==
    /\ pc = "fetch"
    /\ Fault([hist EXCEPT !.failed = @ \cup {CurDoc}])
    /\ NotExported
    /\ UNCHANGED <<envVars, backupState, forceImageRedownload, databases, dbIdx,
                   allPages, downloadedImages, counter, currentPageIds,
                   runs, envs, ticks, outcome>>
    /\ UNCHANGED harnessVars

\* ------------------------------------------------------ blocksToMarkdown
\* What a block adds to the markdown.
TextLine == [kind |-> "text"]
\* A variant of ImageLink that names no file.
ImageLinkNoName(n) == [kind |-> "link", name |-> NoName]
ImageLink(n) == [kind |-> "link", name |-> n]          \* ![n](Attachments/n)
\* A variant of FailedLink that does not carry the URL.
FailedLinkNoUrl(u) == [kind |-> "failed", url |-> "none"]
FailedLink(u) == [kind |-> "failed", url |-> u]        \* ![Image failed to download](u)

CurBlock == BlocksOf(CurDoc)[blockIdx]

\* The loop of blocksToMarkdown moves to the next block; after the last
\* one exportPage goes on to write the file.
NextBlock(line) ==
    /\ markdown' = Append(markdown, line)
    /\ blockIdx' = blockIdx + 1
    /\ pc' = IF blockIdx = Len(BlocksOf(CurDoc)) THEN "write" ELSE "blocks"

\* The record of one downloadImage call for the properties.
Downloaded(h, u, ok, n) ==
    [h EXCEPT !.dl[u].calls = @ + 1,
              !.dl[u].failed = @ \/ ~ok,
              !.dl[u].created = @ \cup {n}]
Referenced(h, u, line) == [h EXCEPT !.dl[u].refs = @ \cup {line}]

\* downloadImage(url, filePath): the write stream is created before the
\* request, so the file exists whatever the outcome; it holds the bytes of
\* url on success and is empty or cut short otherwise.
DownloadImage(pl, u, n, ok) == PoolPut(pl, n, IF ok THEN u ELSE "empty")

\* A variant of CacheSet that forgets the URL.
CacheSetSkipped(cache, u, n) == cache

\* downloadedImages.set(imageUrl, imageName)
CacheSet(cache, u, n) == [cache EXCEPT ![u] = n]

\* A block that is no image.
ConvertText ==
    /\ pc = "blocks"
    /\ CurBlock.type # "image"
    /\ NextBlock(TextLine)
    /\ UNCHANGED <<envVars, backupState, forceImageRedownload, databases, dbIdx,
                   allPages, pageIdx, downloadedImages, counter, currentPageIds,
                   stats, bookVars>>
    /\ UNCHANGED harnessVars

\* An image whose URL is not in downloadedImages: dt milliseconds have
\* passed since the last Date.now(); the download succeeds (ok) or not.
ConvertNewImage(dt, ok) ==
    /\ pc = "blocks"
    /\ CurBlock.type = "image"
    /\ downloadedImages[CurBlock.url] = NoName
    /\ ticks + dt <= MaxTick
    /\ LET u == CurBlock.url
           n == ImageName(clock + dt, counter, ImageExtension(u))
           line == IF ok THEN ImageLink(n) ELSE FailedLink(u)
           h == Referenced(Downloaded(hist, u, ok, n), u, line)
       IN  /\ clock' = clock + dt
           /\ ticks' = ticks + dt
           /\ pool' = DownloadImage(pool, u, n, ok)
           /\ IF ok
              THEN /\ downloadedImages' = CacheSet(downloadedImages, u, n)
                   /\ counter' = counter + 1
                   /\ hist' = h
                   /\ UNCHANGED faults
              ELSE /\ Fault(h)
                   /\ UNCHANGED <<downloadedImages, counter>>
           /\ NextBlock(line)
    /\ UNCHANGED <<remote, files, stateFile, backupState, forceImageRedownload,
                   databases, dbIdx, allPages, pageIdx, currentPageIds, stats,
                   runs, envs, outcome>>
    /\ UNCHANGED harnessVars

\* An image whose URL is in downloadedImages: the file is reused when
\* fs.access finds it, and downloaded again under the same name otherwise.
ConvertKnownImage(ok) ==
    /\ pc = "blocks"
    /\ CurBlock.type = "image"
    /\ downloadedImages[CurBlock.url] # NoName
    /\ LET u == CurBlock.url
           n == downloadedImages[u]
       IN  IF n \in PoolNames(pool)
           THEN /\ ok
                /\ hist' = Referenced(hist, u, ImageLink(n))
                /\ NextBlock(ImageLink(n))
                /\ UNCHANGED <<pool, faults>>
           ELSE LET line == IF ok THEN ImageLink(n) ELSE FailedLink(u)
                    h == Referenced(Downloaded(hist, u, ok, n), u, line)
                IN  /\ pool' = DownloadImage(pool, u, n, ok)
                    /\ IF ok THEN hist' = h /\ UNCHANGED faults ELSE Fault(h)
                    /\ NextBlock(line)
    /\ UNCHANGED <<remote, files, stateFile, clock, backupState,
                   forceImageRedownload, databases, dbIdx, allPages, pageIdx,
                   downloadedImages, counter, currentPageIds, stats,
                   runs, envs, ticks, outcome>>
    /\ UNCHANGED harnessVars

\* ------------------------------------------------- exportPage, the end
\* fs.writeFile of the page succeeds and the record of the page is set.
PageWrite ==
    /\ pc = "write"
    /\ files' = [files EXCEPT ![CurPath] =
                    FileText(CurDoc, remote[CurDoc].marker, markdown)]
    /\ backupState' = [backupState EXCEPT ![CurDoc] =
                    PageRecord(remote[CurDoc].marker, CurPath, remote[CurDoc].title)]
    /\ hist' = [hist EXCEPT !.written = @ \cup {CurPath},
                            !.wrote = @ \cup {CurDoc},
                            !.completed = @ \cup {<<CurDoc, remote[CurDoc].marker>>},
                            !.live = @ \cup {CurDoc}]
    /\ pc' = "save"
    /\ UNCHANGED <<remote, pool, stateFile, clock, forceImageRedownload, databases,
                   dbIdx, allPages, pageIdx, blockIdx, markdown, downloadedImages,
                   counter, currentPageIds, stats, runs, envs, faults, ticks, outcome>>
    /\ UNCHANGED harnessVars

\* A variant of PageWriteFail in which the record is set before the file
\* is written.
PageWriteFailRecorded(cut) ==
    /\ pc = "write"
    /\ Fault([hist EXCEPT !.failed = @ \cup {CurDoc}])
    /\ files' = IF cut THEN [files EXCEPT ![CurPath] = PartialFile] ELSE files
    /\ backupState' = [backupState EXCEPT ![CurDoc] =
                    PageRecord(remote[CurDoc].marker, CurPath, remote[CurDoc].title)]
    /\ NotExported
    /\ UNCHANGED <<remote, pool, stateFile, clock,
                   forceImageRedownload, databases, dbIdx, allPages,
                   downloadedImages, counter, currentPageIds,
                   runs, envs, ticks, outcome>>
    /\ UNCHANGED harnessVars

\* fs.writeFile raises, leaving the file as it was or cut short; the catch
\* of exportPage logs and returns false.
PageWriteFail(cut) ==
    /\ pc = "write"
    /\ Fault([hist EXCEPT !.failed = @ \cup {CurDoc}])
    /\ files' = IF cut THEN [files EXCEPT ![CurPath] = PartialFile] ELSE files
    /\ NotExported
    /\ UNCHANGED <<remote, pool, stateFile, clock, backupState,
                   forceImageRedownload, databases, dbIdx, allPages,
                   downloadedImages, counter, currentPageIds,
                   runs, envs, ticks, outcome>>
    /\ UNCHANGED harnessVars

\* saveBackupState after the page; exportPage returns true.  When the
\* write of the state file raises (~ok), saveBackupState logs a warning
\* and the file is as it was, or cut short (cut).
PageSave(ok, cut) ==
    /\ pc = "save"
    /\ cut => ~ok
    /\ stateFile' = IF ok THEN SaveBackupState(backupState)
                    ELSE IF cut THEN [kind |-> "invalid", pages |-> EmptyPages]
                    ELSE stateFile
    /\ stats' = [stats EXCEPT !.exportedCount = @ + 1]
    /\ IF ok THEN /\ hist' = [hist EXCEPT !.exported = @ \cup {CurDoc}]
                  /\ UNCHANGED faults
       ELSE Fault([hist EXCEPT !.exported = @ \cup {CurDoc}])
    /\ pageIdx' = pageIdx + 1
    /\ blockIdx' = 0
    /\ markdown' = <<>>
    /\ pc' = "page"
    /\ UNCHANGED <<remote, files, pool, clock, backupState, forceImageRedownload,
                   databases, dbIdx, allPages, downloadedImages, counter,
                   currentPageIds, runs, envs, ticks, outcome>>
    /\ UNCHANGED harnessVars

\* ------------------------------------------------- runBackup, the rest
SeqRange(q) == {q[i] : i \in 1..Len(q)}

\* The second query of the database, which collects the ids for the
\* cleanup; then the loop over the databases goes on or ends.
CollectIds ==
    /\ pc = "ids"
    /\ currentPageIds' = currentPageIds \cup SeqRange(QueryDatabase(CurDb))
    /\ IF dbIdx < Len(databases)
       THEN dbIdx' = dbIdx + 1 /\ pc' = "db"
       ELSE dbIdx' = dbIdx /\ pc' = "cleanup"
    /\ UNCHANGED <<envVars, backupState, forceImageRedownload, databases,
                   allPages, pageIdx, blockIdx, markdown, downloadedImages,
                   counter, stats, bookVars>>
    /\ UNCHANGED harnessVars

\* That query raises: runBackup's catch.
CollectIdsFail ==
    /\ pc = "ids"
    /\ Fault(hist)
    /\ Abort
    /\ UNCHANGED <<envVars, stats, runs, envs, ticks>>
    /\ UNCHANGED harnessVars

\* cleanupOrphanedFiles(backupState, currentPageIds): failPaths are the
\* files whose fs.unlink raises.
OrphanIdsInverted(pages, ids) == {d \in Docs : pages[d] # NoRec /\ d \in ids}

OrphanIds(pages, ids) == {d \in Docs : pages[d] # NoRec /\ d \notin ids}

\* A variant of RemovedRecords that deletes the record of an orphan also
\* when the unlink of its file raised.
RemovedRecordsAll(pages, orphans, failPaths) == orphans

\* The records deleted at "delete backupState.pages[pageId]": the statement
\* is inside the try, after the unlink, so a record whose unlink raised stays.
RemovedRecords(pages, orphans, failPaths) ==
    {d \in orphans : pages[d].filePath \notin failPaths}

CleanupOrphanedFiles(failPaths) ==
    /\ pc = "cleanup"
    /\ LET orphans == OrphanIds(backupState, currentPageIds)
           present == {p \in {backupState[d].filePath : d \in orphans} :
                         files[p] # NoFile}
           removed == RemovedRecords(backupState, orphans, failPaths)
       IN  /\ failPaths \subseteq present
           /\ faults + Cardinality(failPaths) <= MaxFaults
           /\ faults' = faults + Cardinality(failPaths)
           /\ files' = [p \in AllPaths |->
                          IF p \in present \ failPaths THEN NoFile ELSE files[p]]
           /\ backupState' = [d \in Docs |->
                          IF d \in removed THEN NoRec ELSE backupState[d]]
           /\ stats' = [stats EXCEPT !.cleanedUp = Cardinality(present \ failPaths)]
           /\ hist' = [hist EXCEPT !.reconciled = TRUE,
                                   !.orphans = orphans,
                                   !.removed = removed,
                                   !.unlinkFailed = failPaths,
                                   !.fault = @ \/ failPaths # {},
                                   !.live = @ \ removed]
    /\ pc' = "sweep"
    /\ UNCHANGED <<remote, pool, stateFile, clock, forceImageRedownload, databases,
                   dbIdx, allPages, pageIdx, blockIdx, markdown, downloadedImages,
                   counter, currentPageIds, runs, envs, ticks, outcome>>
    /\ UNCHANGED harnessVars

\* String(counter).padStart(4, '0') as a sequence of digits.
RECURSIVE Digits(_)
Digits(n) == IF n < 10 THEN <<n>> ELSE Digits(n \div 10) \o <<n % 10>>
RECURSIVE PadStart(_, _)
PadStart(ds, width) == IF Len(ds) >= width THEN ds ELSE PadStart(<<0>> \o ds, width)
CounterText(n) == PadStart(Digits(n), 4)

\* The order of Array.prototype.sort on the texts of two counters.
RECURSIVE LexLess(_, _)
LexLess(x, y) ==
    IF x = <<>> THEN y # <<>>
    ELSE IF y = <<>> THEN FALSE
    ELSE IF Head(x) # Head(y) THEN Head(x) < Head(y)
    ELSE LexLess(Tail(x), Tail(y))

\* The names that match /^image_(\d+)_\d+\.(.*?)$/.
ImagePattern(n) == "ts" \in DOMAIN n

\* A variant of GroupKey that leaves the extension out of the key.
GroupKeyTimestampOnly(n) == <<n.ts>>

\* cleanupDuplicateImages: the image files whose name matches the pattern
\* are grouped by timestamp and extension; the first name of a group in
\* sort order is kept.
GroupKey(n) == <<n.ts, n.ext>>
SweepRemoves(pl) ==
    LET grouped == {n \in PoolImageFiles(pl) : ImagePattern(n)}
    IN  {n \in grouped :
            \E m \in grouped :
                /\ GroupKey(m) = GroupKey(n)
                /\ LexLess(CounterText(m.ctr), CounterText(n.ctr))}

\* failNames are the files whose fs.unlink raises: they stay and are not
\* counted.
CleanupDuplicateImages ==
    /\ pc = "sweep"
    /\ \E failNames \in SUBSET SweepRemoves(pool) :
          /\ faults + Cardinality(failNames) <= MaxFaults
          /\ faults' = faults + Cardinality(failNames)
          /\ hist' = [hist EXCEPT !.fault = @ \/ failNames # {}]
          /\ pool' = {f \in pool : f.name \notin SweepRemoves(pool) \ failNames}
          /\ stats' = [stats EXCEPT !.duplicatesRemoved =
                                        Cardinality(SweepRemoves(pool) \ failNames)]
    /\ pc' = "final"
    /\ UNCHANGED <<remote, files, stateFile, clock, backupState,
                   forceImageRedownload, databases, dbIdx, allPages, pageIdx,
                   blockIdx, markdown, downloadedImages, counter, currentPageIds,
                   runs, envs, ticks, outcome>>
    /\ UNCHANGED harnessVars

\* The last saveBackupState and the index file: the run is complete.
FinishRun ==
    /\ pc = "final"
    /\ stateFile' = SaveBackupState(backupState)
    /\ outcome' = "complete"
    /\ Stopped
    /\ UNCHANGED <<remote, files, pool, clock, stats, runs, envs, faults, ticks, hist>>
    /\ UNCHANGED harnessVars

\* ---------------------------------------------------------------- kill
\* The documents whose export is under way and has not written its file.
InExport == IF pc \in {"fetch", "blocks", "write"} THEN {CurDoc} ELSE {}

\* The process is killed.  A write that is under way may be cut short:
\* the page file (cutFile), the state file (cutState), or the image being
\* downloaded (cutImage).
Kill(cutFile, cutState, cutImage) ==
    /\ pc # "idle"
    /\ Fault([hist EXCEPT !.interrupted = InExport])
    /\ cutFile => pc = "write"
    /\ cutState => pc \in {"db", "save", "final"}
    /\ cutImage => /\ pc = "blocks"
                   /\ CurBlock.type = "image"
                   /\ downloadedImages[CurBlock.url] = NoName
    /\ files' = IF cutFile THEN [files EXCEPT ![CurPath] = PartialFile] ELSE files
    /\ stateFile' = IF cutState THEN [kind |-> "invalid", pages |-> EmptyPages]
                    ELSE stateFile
    /\ pool' = IF cutImage
               THEN DownloadImage(pool, CurBlock.url,
                        ImageName(clock, counter, ImageExtension(CurBlock.url)), FALSE)
               ELSE pool
    /\ outcome' = "killed"
    /\ Stopped
    /\ UNCHANGED <<remote, clock, stats, runs, envs, ticks>>
    /\ UNCHANGED harnessVars

\* ------------------------------------------------- the outside world
\* External changes happen between runs.
Env(change) ==
    /\ pc = "idle"
    /\ envs < MaxEnv
    /\ envs' = envs + 1
    /\ hist' = [hist EXCEPT !.since = change]
    /\ UNCHANGED <<procVars, runs, faults, ticks, outcome>>

\* A document is edited in Notion.
EditDocument(d) ==
    /\ remote[d].exists
    /\ remote[d].marker < MaxMarker
    /\ remote' = [remote EXCEPT ![d].marker = @ + 1]
    /\ Env([hist.since EXCEPT !.edited = @ \cup {d}])
    /\ UNCHANGED <<files, pool, stateFile, clock>>
    /\ UNCHANGED harnessVars

\* A document is given another title in Notion, which also moves its
\* last_edited_time.
RenameDocument(d, t) ==
    /\ remote[d].exists
    /\ remote[d].title # t
    /\ remote[d].marker < MaxMarker
    /\ remote' = [remote EXCEPT ![d].marker = @ + 1, ![d].title = t]
    /\ Env([hist.since EXCEPT !.edited = @ \cup {d}])
    /\ UNCHANGED <<files, pool, stateFile, clock>>
    /\ UNCHANGED harnessVars

\* A document is deleted in Notion.
DeleteDocument(d) ==
    /\ remote[d].exists
    /\ remote' = [remote EXCEPT ![d].exists = FALSE]
    /\ Env([hist.since EXCEPT !.other = TRUE])
    /\ UNCHANGED <<files, pool, stateFile, clock>>
    /\ UNCHANGED harnessVars

\* A page file is deleted from the backup directory.
DeleteLocalFile(p) ==
    /\ files[p] # NoFile
    /\ files' = [files EXCEPT ![p] = NoFile]
    /\ Env([hist.since EXCEPT !.other = TRUE])
    /\ UNCHANGED <<remote, pool, stateFile, clock>>
    /\ UNCHANGED harnessVars

\* The files of the Attachments directory are deleted.
EmptyAttachments ==
    /\ pool # {}
    /\ pool' = {}
    /\ Env([hist.since EXCEPT !.other = TRUE])
    /\ UNCHANGED <<remote, files, stateFile, clock>>
    /\ UNCHANGED harnessVars

\* The state file is deleted ("missing"), damaged ("invalid": no JSON) or
\* replaced by JSON without a pages mapping ("nopages", such as {}).
CorruptStateFile(kind) ==
    /\ stateFile.kind = "valid"
    /\ stateFile' = [kind |-> kind, pages |-> EmptyPages]
    /\ Env([hist.since EXCEPT !.other = TRUE])
    /\ UNCHANGED <<remote, files, pool, clock>>
    /\ UNCHANGED harnessVars

\* -------------------------------------------------------- specification
Next ==
    \/ \E failing \in SUBSET Containers : StartRun(failing)
    \/ DbBegin
    \/ DbQueryFail
    \/ PageDecide
    \/ PagesDone
    \/ PageFetch
    \/ PageFetchFail
    \/ ConvertText
    \/ \E dt \in 0..MaxTick, ok \in BOOLEAN : ConvertNewImage(dt, ok)
    \/ \E ok \in BOOLEAN : ConvertKnownImage(ok)
    \/ PageWrite
    \/ \E cut \in BOOLEAN : PageWriteFail(cut)
    \/ \E ok, cut \in BOOLEAN : PageSave(ok, cut)
    \/ CollectIds
    \/ CollectIdsFail
    \/ \E failPaths \in SUBSET AllPaths : CleanupOrphanedFiles(failPaths)
    \/ CleanupDuplicateImages
    \/ FinishRun
    \/ \E cutFile, cutState, cutImage \in BOOLEAN : Kill(cutFile, cutState, cutImage)
    \/ \E d \in Docs : EditDocument(d)
    \/ \E d \in Docs, t \in Titles : RenameDocument(d, t)
    \/ \E d \in Docs : DeleteDocument(d)
    \/ \E p \in AllPaths : DeleteLocalFile(p)
    \/ EmptyAttachments
    \/ \E kind \in {"missing", "invalid", "nopages"} : CorruptStateFile(kind)

Spec == Init /\ [][Next]_vars

\* ------------------------------------------------- callWithRetry, steps
\* callWithRetry(apiCall, retries) is called; script is what apiCall will
\* answer.
RetryStart(retries, script) ==
    /\ retry.pc = "idle"
    /\ retry' = [RetryIdle EXCEPT !.pc = IF 0 < retries THEN "loop" ELSE "fell",
                                  !.retries = retries,
                                  !.script = script]
    /\ UNCHANGED <<backupVars, discovery, download, conversion, naming, lookup>>

\* One pass of the while loop up to the delay: apiCall is awaited; its
\* result is returned, or its error is thrown or leads to a delay.
RetryCall ==
    /\ retry.pc = "loop"
    /\ LET r == retry.script[retry.calls + 1]
           attempt == retry.attempt + 1
       IN  retry' =
             IF r.kind = "ok"
             THEN [retry EXCEPT !.calls = @ + 1, !.pc = "returned", !.result = r]
             ELSE IF Retryable(r)
             THEN IF Exhausted(attempt, retry.retries)
                  THEN [retry EXCEPT !.calls = @ + 1, !.attempt = attempt,
                                     !.pc = "thrown", !.result = r]
                  ELSE [retry EXCEPT !.calls = @ + 1, !.attempt = attempt,
                                     !.pc = "wait"]
             ELSE [retry EXCEPT !.calls = @ + 1, !.pc = "thrown", !.result = r]
    /\ UNCHANGED <<backupVars, discovery, download, conversion, naming, lookup>>

\* await delay(waitTime), then the test of the while loop; when the test
\* fails the function ends without a value.
RetryDelay ==
    /\ retry.pc = "wait"
    /\ retry' = [retry EXCEPT
                    !.delays = Append(@, WaitTime(retry.attempt)),
                    !.pc = IF retry.attempt < retry.retries THEN "loop" ELSE "fell"]
    /\ UNCHANGED <<backupVars, discovery, download, conversion, naming, lookup>>

\* The caller is done with the call.
RetryEnd ==
    /\ retry.pc \in {"returned", "thrown", "fell"}
    /\ retry' = RetryIdle
    /\ UNCHANGED <<backupVars, discovery, download, conversion, naming, lookup>>

RetryNext ==
    \/ \E retries \in 1..MaxRetries, script \in Scripts : RetryStart(retries, script)
    \/ RetryCall
    \/ RetryDelay
    \/ RetryEnd

\* callWithRetry alone, with no backup in the backup directory.
RetryInit == Init /\ \A d \in Docs : ~remote[d].exists /\ remote[d].title # TitleM

RetrySpec == RetryInit /\ [][RetryNext]_vars

\* ---------------------------------------------- findAllDatabases, steps
\* findAllDatabases(root) is called on a tree of pages.
DiscoverStart ==
    /\ discovery.pc = "idle"
    /\ \E pm \in TreeParents, ord \in TreeOrders, size \in 1..MaxPageSize,
          failing \in SUBSET TreeContainers :
          discovery' = [DiscoveryIdle EXCEPT !.pc = "called", !.parent = pm,
                                            !.order = ord, !.failing = failing,
                                            !.children = TreeChildren(pm, ord, size)]
    /\ UNCHANGED <<backupVars, retry, download, conversion, naming, lookup>>

\* The call returns.
DiscoverReturn ==
    /\ discovery.pc = "called"
    /\ discovery' = [discovery EXCEPT
          !.pc = "done",
          !.result = FindAllDatabasesIn(discovery.children, RootPage,
                                        discovery.failing)]
    /\ UNCHANGED <<backupVars, retry, download, conversion, naming, lookup>>

\* The caller is done with the result.
DiscoverEnd ==
    /\ discovery.pc = "done"
    /\ discovery' = DiscoveryIdle
    /\ UNCHANGED <<backupVars, retry, download, conversion, naming, lookup>>

DiscoverNext ==
    \/ DiscoverStart
    \/ DiscoverReturn
    \/ DiscoverEnd

DiscoverSpec == RetryInit /\ [][DiscoverNext]_vars

\* ------------------------------------------------- downloadImage, steps
\* downloadImage(url, filePath) is called: the write stream is created and
\* the request is sent.
DownloadStart ==
    /\ download.pc = "idle"
    /\ \E u \in Urls :
          download' = [DownloadIdle EXCEPT !.pc = "requesting", !.trail = <<u>>]
    /\ UNCHANGED <<backupVars, retry, discovery, conversion, naming, lookup>>

\* The answer to the request in flight.  A redirect closes the file and
\* calls downloadImage for the location, whose result resolves this call;
\* no count of the redirects is kept.  Status 200 pipes the response to
\* the file; every other answer resolves false.  After a timeout
\* request.destroy() may raise the error event, which resolves again.
DownloadAnswer ==
    /\ download.pc = "requesting"
    /\ \E answer \in GetAnswers, location \in Locations, again \in BOOLEAN :
          /\ answer = "redirect" => download.redirects < MaxRedirects
          /\ again => answer = "timeout"
          /\ answer # "redirect" => location = "l1"
          /\ download' =
               IF answer = "redirect"
               THEN [download EXCEPT !.trail = Append(@, location),
                                     !.redirects = @ + 1]
               ELSE LET d == Resolve([download EXCEPT !.pc = "done"], answer = "ok")
                    IN  IF again THEN Resolve(d, FALSE) ELSE d
    /\ UNCHANGED <<backupVars, retry, discovery, conversion, naming, lookup>>

\* The request of an earlier call of the chain, whose redirect response is
\* never read, meets its timeout of 30 seconds: it resolves false, and
\* with it the first call, while the chain goes on.
DownloadStaleTimeout ==
    /\ download.pc = "requesting"
    /\ download.redirects > 0
    /\ ~download.settled
    /\ download' = Resolve(download, FALSE)
    /\ UNCHANGED <<backupVars, retry, discovery, conversion, naming, lookup>>

\* The caller has the result.
DownloadEnd ==
    /\ download.pc = "done"
    /\ download' = DownloadIdle
    /\ UNCHANGED <<backupVars, retry, discovery, conversion, naming, lookup>>

DownloadNext ==
    \/ DownloadStart
    \/ DownloadAnswer
    \/ DownloadStaleTimeout
    \/ DownloadEnd

DownloadSpec == RetryInit /\ [][DownloadNext]_vars

\* ---------------------------------------------- blocksToMarkdown, steps
\* exportPage has listed the blocks of the document and calls
\* blocksToMarkdown(blocks.results, ...).
MarkdownStart ==
    /\ conversion.pc = "idle"
    /\ \E pm \in BlockParents, ord \in BlockOrders, size \in 1..MaxPageSize,
          failing \in SUBSET TreeBlocks :
          conversion' = [ConversionIdle EXCEPT
                            !.pc = "called", !.parent = pm, !.order = ord,
                            !.failing = failing,
                            !.children = BlockChildren(pm, ord, size)]
    /\ UNCHANGED <<backupVars, retry, discovery, download, naming, lookup>>

\* The call returns the markdown.
MarkdownReturn ==
    /\ conversion.pc = "called"
    /\ conversion' = [conversion EXCEPT
          !.pc = "done",
          !.result = BlocksToMarkdown(conversion.children,
                                      ListResults(conversion.children[TreeDoc]),
                                      1, <<>>, conversion.failing)]
    /\ UNCHANGED <<backupVars, retry, discovery, download, naming, lookup>>

\* exportPage has the markdown.
MarkdownEnd ==
    /\ conversion.pc = "done"
    /\ conversion' = ConversionIdle
    /\ UNCHANGED <<backupVars, retry, discovery, download, naming, lookup>>

MarkdownNext ==
    \/ MarkdownStart
    \/ MarkdownReturn
    \/ MarkdownEnd

MarkdownSpec == RetryInit /\ [][MarkdownNext]_vars

\* ------------------------------------- generateSafeFilename, the calls
\* generateSafeFilename(title) is called and returns.
FilenameStart ==
    /\ naming.pc = "idle"
    /\ \E prefix, suffix \in AffixesOf(MaxAffix), n \in RunLengths :
          LET title == prefix \o LetterRun(n) \o suffix
          IN  naming' = [pc |-> "done", title |-> title,
                         result |-> GenerateSafeFilename(title)]
    /\ UNCHANGED <<backupVars, retry, discovery, download, conversion, lookup>>

FilenameEnd ==
    /\ naming.pc = "done"
    /\ naming' = NamingIdle
    /\ UNCHANGED <<backupVars, retry, discovery, download, conversion, lookup>>

FilenameNext ==
    \/ FilenameStart
    \/ FilenameEnd

\* generateSafeFilename alone.
FilenameSpec == RetryInit /\ [][FilenameNext]_vars

\* ------------------------------------------ cleanupDuplicateImages, steps
\* The files cleanupDuplicateImages may find in the attachments directory:
\* names of the pattern with counters of four and of five digits, one of
\* them with another extension, one of them no image file, and a file of
\* another name.
SweepCounters == {1, 9999, 10000}
OtherName == [other |-> "photo", ext |-> ".png"]
SweepNames ==
    {ImageName(ts, ctr, ".jpg") : ts \in 1..MaxStamp, ctr \in SweepCounters}
        \cup {ImageName(1, 1, ".png"), ImageName(1, 1, ".txt"), OtherName}

\* A run comes to cleanupDuplicateImages with the files of names in the
\* attachments directory.
SweepStart ==
    /\ pc = "idle"
    /\ \E names \in SUBSET SweepNames :
          pool' = {[name |-> n, src |-> "u1"] : n \in names}
    /\ pc' = "sweep"
    /\ outcome' = "running"
    /\ faults' = 0
    /\ hist' = [hist EXCEPT !.fault = FALSE]
    /\ UNCHANGED <<remote, files, stateFile, clock, backupState,
                   forceImageRedownload, databases, dbIdx, allPages, pageIdx,
                   blockIdx, markdown, downloadedImages, counter, currentPageIds,
                   stats, runs, envs, ticks>>
    /\ UNCHANGED harnessVars

SweepNext ==
    \/ SweepStart
    \/ CleanupDuplicateImages

SweepSpec == RetryInit /\ [][SweepNext]_vars

\* --------------------------------- getOrCreateDatabaseForPath, the steps
\* A sync starts: the databases of titles in "existing" are under the
\* parent page.
LookupStart ==
    /\ lookup.pc = "idle"
    /\ \E existing \in SUBSET LookupTitles :
          lookup' = [LookupIdle EXCEPT !.pc = "run", !.existing = existing]
    /\ UNCHANGED <<backupVars, retry, discovery, download, conversion, naming>>

\* getOrCreateDatabaseForPath(relativePath), called by t: one synchronous
\* turn.  A cached promise is returned; otherwise the async function is
\* started (it runs up to its first await, the listing) and its promise is
\* cached and returned.
GetOrCreateDatabaseForPath(t, path) ==
    /\ lookup.pc = "run"
    /\ lookup.caller[t].at = "start"
    /\ LET dbTitle == DbTitleOf(path)
           hit == lookup.cache[dbTitle] # "none"
           on == IF hit THEN lookup.cache[dbTitle] ELSE t
       IN  lookup' = [lookup EXCEPT
              !.promise[t] = IF hit THEN @
                             ELSE [state |-> "listing", title |-> dbTitle,
                                   created |-> FALSE],
              !.cache = IF hit THEN @ ELSE PromiseCacheSet(@, dbTitle, t),
              !.caller[t] = [at |-> "waiting", path |-> path, on |-> on,
                             joined |-> hit /\ lookup.promise[on].state
                                                  \in {"listing", "creating"}]]
    /\ UNCHANGED <<backupVars, retry, discovery, download, conversion, naming>>

\* The listing of the parent page returns or raises: the database is
\* found, or createNotionDatabase is called.
LookupListed(t, ok) ==
    /\ lookup.pc = "run"
    /\ lookup.promise[t].state = "listing"
    /\ LET title == lookup.promise[t].title
       IN  lookup' = [lookup EXCEPT !.promise[t] =
              IF ~ok THEN [@ EXCEPT !.state = "rejected"]
              ELSE IF title \in lookup.existing
              THEN [state |-> "resolved", title |-> title, created |-> FALSE,
                    id |-> [title |-> title, by |-> "remote"]]
              ELSE [@ EXCEPT !.state = "creating", !.created = TRUE]]
    /\ UNCHANGED <<backupVars, retry, discovery, download, conversion, naming>>

\* createNotionDatabase(dbTitle) returns the id of a new database, or
\* raises.
CreateNotionDatabase(t, ok) ==
    /\ lookup.pc = "run"
    /\ lookup.promise[t].state = "creating"
    /\ lookup' = [lookup EXCEPT !.promise[t] =
          IF ok
          THEN [state |-> "resolved", title |-> @.title, created |-> TRUE,
                id |-> [title |-> @.title, by |-> t]]
          ELSE [@ EXCEPT !.state = "rejected"]]
    /\ UNCHANGED <<backupVars, retry, discovery, download, conversion, naming>>

\* The await of a caller ends with the id, or with the error.
LookupReceive(t) ==
    /\ lookup.pc = "run"
    /\ lookup.caller[t].at = "waiting"
    /\ LET p == lookup.promise[lookup.caller[t].on]
       IN  /\ p.state \in {"resolved", "rejected"}
           /\ lookup' = [lookup EXCEPT !.caller[t] =
                 IF p.state = "resolved"
                 THEN [@ EXCEPT !.at = "got"] @@ [id |-> p.id]
                 ELSE [@ EXCEPT !.at = "failed"]]
    /\ UNCHANGED <<backupVars, retry, discovery, download, conversion, naming>>

\* The process ends.
LookupEnd ==
    /\ lookup.pc = "run"
    /\ \A t \in Callers : lookup.caller[t].at \in {"got", "failed"}
    /\ lookup' = LookupIdle
    /\ UNCHANGED <<backupVars, retry, discovery, download, conversion, naming>>

LookupNext ==
    \/ LookupStart
    \/ \E t \in Callers, path \in LookupPaths : GetOrCreateDatabaseForPath(t, path)
    \/ \E t \in Callers, ok \in BOOLEAN : LookupListed(t, ok)
    \/ \E t \in Callers, ok \in BOOLEAN : CreateNotionDatabase(t, ok)
    \/ \E t \in Callers : LookupReceive(t)
    \/ LookupEnd

\* The calls of getOrCreateDatabaseForPath of one process.
LookupSpec == RetryInit /\ [][LookupNext]_vars

\* ------------------------------------------- cleanupOrphanedFiles alone
\* A run comes to cleanupOrphanedFiles with records for some documents,
\* some of the files the records name (and others) on disk, and some
\* documents returned by the collections.
ReconcileStart ==
    /\ pc = "idle"
    /\ \E recs \in [Docs -> {NoRec} \cup
                         {[kind |-> "rec", title |-> t] : t \in Titles}],
          present \in SUBSET AllPaths, ids \in SUBSET Docs :
          LET pages == [d \in Docs |->
                          IF recs[d] = NoRec THEN NoRec
                          ELSE PageRecord(1, PageFilePath(DbOf(d), recs[d].title),
                                          recs[d].title)]
              Owner(q) == IF \E d \in Docs : pages[d] # NoRec /\ pages[d].filePath = q
                          THEN CHOOSE d \in Docs :
                                   pages[d] # NoRec /\ pages[d].filePath = q
                          ELSE "a"
          IN  /\ backupState' = pages
              /\ files' = [q \in AllPaths |->
                             IF q \in present THEN FileText(Owner(q), 1, <<>>)
                             ELSE NoFile]
              /\ currentPageIds' = ids
    /\ pc' = "cleanup"
    /\ outcome' = "running"
    /\ faults' = 0
    /\ stats' = NoStats
    /\ hist' = FreshHist
    /\ UNCHANGED <<remote, pool, stateFile, clock, forceImageRedownload, databases,
                   dbIdx, allPages, pageIdx, blockIdx, markdown, downloadedImages,
                   counter, runs, envs, ticks>>
    /\ UNCHANGED harnessVars

ReconcileNext ==
    \/ ReconcileStart
    \/ \E failPaths \in SUBSET AllPaths : CleanupOrphanedFiles(failPaths)

ReconcileSpec == RetryInit /\ [][ReconcileNext]_vars

\* ============================================================ properties
\* The run is complete and nothing has changed since it started.
RunComplete == pc = "idle" /\ outcome = "complete" /\ hist.since = NoChange
ExistingDocs == {d \in Docs : remote[d].exists}
\* The previous run was complete and met no fault, nothing but the edits
\* of hist.basis.edited changed since, and this run met no fault.
AfterCleanRun == hist.basis.clean /\ ~hist.basis.other /\ ~hist.fault
\* No two documents are written to the same file.
DistinctPaths ==
    \A d, e \in Docs :
        d # e => PageFilePath(DbOf(d), remote[d].title) # PageFilePath(DbOf(e), remote[e].title)

\* C1: of two consecutive complete runs with no change to the remote store
\* or to the local files between them, the second exports no document and
\* skips every document.
C1_SecondRunExportsNothing ==
    (RunComplete /\ AfterCleanRun /\ hist.basis.edited = {})
        => (hist.exported = {} /\ hist.skipped = ExistingDocs)

\* The same with an image file in the pool when the second run starts,
\* which is what the code guarantees.
C1_SecondRunExportsNothingWithImages ==
    (RunComplete /\ AfterCleanRun /\ hist.basis.edited = {} /\ ~hist.forced
        /\ DistinctPaths)
        => (hist.exported = {} /\ hist.skipped = ExistingDocs)

\* C2: when exactly the documents of S got another last_edited_time between
\* two complete runs, the next run re-exports exactly S, and neither the
\* file nor the record of a document outside S is rewritten.
C2_ExactlyEditedReexported ==
    (RunComplete /\ AfterCleanRun /\ hist.basis.edited # {})
        => /\ hist.exported = hist.basis.edited
           /\ \A d \in ExistingDocs \ hist.basis.edited :
                 /\ d \notin hist.wrote
                 /\ hist.loaded[d] # NoRec
                 /\ hist.loaded[d].filePath \notin hist.written

\* The same for documents with distinct files and a pool that holds an
\* image file.
C2_ExactlyEditedReexportedNominal ==
    (RunComplete /\ AfterCleanRun /\ hist.basis.edited # {}
        /\ DistinctPaths /\ ~hist.forced)
        => /\ hist.exported = hist.basis.edited
           /\ \A d \in ExistingDocs \ hist.basis.edited :
                 /\ d \notin hist.wrote
                 /\ hist.loaded[d] # NoRec
                 /\ hist.loaded[d].filePath \notin hist.written

\* C3: a document whose record has the remote marker while the file the
\* record names was deleted is re-exported by the next run: it is not
\* skipped, and when the run is complete and met no fault its file exists
\* again and its record was rewritten.
C3_MissingFileReexported ==
    \A d \in hist.healing :
        /\ d \notin hist.skipped
        /\ (RunComplete /\ ~hist.fault)
              => /\ d \in hist.exported
                 /\ files[hist.loaded[d].filePath] # NoFile

\* The same when no two documents share a file.
C3_MissingFileReexportedDistinct ==
    DistinctPaths =>
    \A d \in hist.healing :
        /\ d \notin hist.skipped
        /\ (RunComplete /\ ~hist.fault)
              => /\ d \in hist.exported
                 /\ files[hist.loaded[d].filePath] # NoFile

\* C5: the id set passed to cleanupOrphanedFiles holds every document that
\* exists in a collection under the root: no existing document that has a
\* record is taken for an orphan, and none loses its record or its file.
C5_IdsCoverRemote ==
    \A d \in ExistingDocs :
        /\ d \notin hist.orphans
        /\ d \notin hist.removed

\* C9: when the state file is missing, unreadable or not a BackupState, the
\* run goes on as with an empty state and exports every document; it does
\* not fail.
BadStateKinds == {"missing", "invalid", "nopages"}
C9_BadStateMeansEmptyState ==
    (hist.startKind \in BadStateKinds /\ ~hist.fault)
        => /\ hist.loaded = EmptyPages
           /\ outcome # "aborted"
           /\ hist.skipped = {}
           /\ RunComplete => hist.exported = ExistingDocs

\* The same for a state file that is missing or is no JSON.
C9_MissingOrInvalidMeansEmptyState ==
    (hist.startKind \in {"missing", "invalid"} /\ ~hist.fault)
        => /\ hist.loaded = EmptyPages
           /\ outcome # "aborted"
           /\ hist.skipped = {}
           /\ RunComplete => hist.exported = ExistingDocs

\* C4: a document that has a record and is no longer returned by any
\* collection has, after the next run that walks every collection and
\* meets no error, no file at the path of its record and no record in the
\* state in memory or in the state file.
C4_OrphanFileAndRecordRemoved ==
    \A d \in Docs :
        (hist.loaded[d] # NoRec /\ ~remote[d].exists /\ ~hist.fault)
            => /\ pc \in {"sweep", "final"} =>
                     /\ backupState[d] = NoRec
                     /\ files[hist.loaded[d].filePath] = NoFile
               /\ RunComplete =>
                     /\ stateFile.pages[d] = NoRec
                     /\ files[hist.loaded[d].filePath] = NoFile

\* A complete run has deleted the file and the record of a document that
\* is gone from the remote store.
C4_Witness ==
    /\ RunComplete /\ ~hist.fault
    /\ \E d \in Docs :
          /\ hist.loaded[d] # NoRec /\ ~remote[d].exists
          /\ d \in hist.removed
          /\ stateFile.pages[d] = NoRec
    /\ stats.cleanedUp >= 1

\* C6 as stated: in every state of a run, state.pages holds a record for a
\* document exactly when an export of it has completed its file write and
\* cleanupOrphanedFiles has not removed it since.
C6_RecordIffWritten ==
    pc # "idle" =>
        \A d \in Docs : (backupState[d] # NoRec) <=> (d \in hist.live)

\* C6 as amended: in every state of a run, state.pages holds a record for a
\* document only if an export of it has completed its file write with the
\* marker of the record, and every document whose file was written in this
\* run holds a record until cleanupOrphanedFiles removes it.
C6_RecordOnlyAfterWrite ==
    pc # "idle" =>
        /\ \A d \in Docs :
              backupState[d] # NoRec
                  => <<d, backupState[d].lastModified>> \in hist.completed
        /\ \A d \in hist.wrote \ hist.removed : backupState[d] # NoRec

\* In one run the write of one document has failed, which left it without
\* a record, and the write of another has succeeded.
C6_Witness ==
    /\ pc # "idle"
    /\ \E d \in hist.failed : d \notin hist.wrote /\ backupState[d] = NoRec
    /\ \E e \in hist.wrote : backupState[e] # NoRec

\* C7: after a kill the state file holds records only of documents whose
\* file write had completed, and the run that follows the kill re-exports
\* every document whose export the kill interrupted.
C7_KillThenResume ==
    /\ \A d \in Docs :
          stateFile.pages[d] # NoRec
              => <<d, stateFile.pages[d].lastModified>> \in hist.completed
    /\ (RunComplete /\ ~hist.fault)
          => \A d \in hist.basis.resume \cap ExistingDocs : d \in hist.exported

\* C8: when the fetch or the write of a document raises, its record in
\* memory and in the state file stays what it was, the export goes on with
\* the next document, and the next run attempts the document again.
C8_FailedExportRetried ==
    /\ pc \in {"page", "fetch", "blocks", "write", "save", "ids", "db"}
          => \A d \in hist.failed \ hist.wrote :
                /\ backupState[d] = hist.loaded[d]
                /\ stateFile.pages[d] = hist.loaded[d]
    /\ (RunComplete /\ ~hist.fault)
          => \A d \in hist.basis.retry \cap ExistingDocs : d \notin hist.skipped

\* C10: in one run, an origin URL that image blocks refer to and whose
\* download does not fail is downloaded once, one file is created for it
\* in the pool, and every reference to it is the link to that file.
C10_OneDownloadPerUrl ==
    \A u \in Urls :
        (hist.dl[u].calls >= 1 /\ ~hist.dl[u].failed)
            => /\ hist.dl[u].calls = 1
               /\ Cardinality(hist.dl[u].created) = 1
               /\ hist.dl[u].refs = {ImageLink(n) : n \in hist.dl[u].created}

\* A run has exported two documents that refer to the same URL, one of
\* them twice, with one download.
C10_Witness ==
    /\ {"a", "b"} \subseteq hist.exported
    /\ hist.dl["u1"].calls = 1
    /\ ~hist.dl["u1"].failed
    /\ \E n \in hist.dl["u1"].created :
          /\ files[PageFilePath(DbOf("a"), remote["a"].title)].body = <<ImageLink(n), ImageLink(n)>>
          /\ files[PageFilePath(DbOf("b"), remote["b"].title)].body[1] = ImageLink(n)

\* C11: at every point of a run downloadedImages maps no two URLs to the
\* same file name, and the name of a URL that is mapped does not change
\* for the rest of the run.
C11_CacheInjectiveStable ==
    /\ [](\A u, v \in Urls :
            (u # v /\ downloadedImages[u] # NoName /\ downloadedImages[v] # NoName)
                => downloadedImages[u] # downloadedImages[v])
    /\ [][\A u \in Urls :
            (downloadedImages[u] # NoName /\ pc' # "idle")
                => downloadedImages'[u] = downloadedImages[u]]_vars

\* Two URLs are mapped in one run, and a document is converted after that.
C11_Witness ==
    /\ downloadedImages["u1"] # NoName
    /\ downloadedImages["u2"] # NoName
    /\ pc = "write"

\* C12: after complete runs the pool holds at most one file with the
\* content of any one origin URL.
C12_OneFilePerUrl ==
    (RunComplete /\ ~hist.fault /\ (runs = 1 \/ hist.basis.clean))
        => \A u \in Urls : Cardinality({f \in pool : f.src = u}) <= 1

\* The errors the claims call retryable: a rate limit, a conflict, or a
\* response of the 5xx class.
ClaimRetryable(r) ==
    /\ r.kind = "error"
    /\ (r.code \in {"rate_limited", "conflict_error"} \/ r.status \in 500..599)
RetryFinished == retry.pc \in {"returned", "thrown", "fell"}

\* C13: when the operation fails with a retryable error on its first k
\* calls, k <= retries - 1, and then succeeds, callWithRetry returns that
\* result after k + 1 calls and exactly k delays.
C13_RetryThenSuccess ==
    \A k \in 0..(MaxRetries - 1) :
        (/\ RetryFinished
         /\ k <= retry.retries - 1
         /\ \A i \in 1..k : ClaimRetryable(retry.script[i])
         /\ retry.script[k + 1].kind = "ok")
            => /\ retry.pc = "returned"
               /\ retry.result = retry.script[k + 1]
               /\ retry.calls = k + 1
               /\ Len(retry.delays) = k

\* A call has returned a result after the largest number of retryable
\* failures its retries allow, with a delay after each of them.
C13_Witness ==
    /\ retry.pc = "returned"
    /\ retry.retries = MaxRetries
    /\ retry.calls = MaxRetries
    /\ {retry.script[i].code : i \in 1..(MaxRetries - 1)} \subseteq
           {"rate_limited", "conflict_error", "bad_gateway"}
    /\ Len(retry.delays) = MaxRetries - 1

\* C14: when the operation fails with a retryable error on every call,
\* callWithRetry calls it exactly retries times, never more, and then
\* fails with the error of the last call.
C14_RetryExhausted ==
    (\A i \in 1..retry.retries : ClaimRetryable(retry.script[i]))
        => /\ retry.calls <= retry.retries
           /\ RetryFinished
                => /\ retry.pc = "thrown"
                   /\ retry.calls = retry.retries
                   /\ retry.result = retry.script[retry.retries]

\* A call has failed after retries calls that all failed with a retryable
\* error.
C14_Witness ==
    /\ retry.pc = "thrown"
    /\ retry.retries = MaxRetries
    /\ retry.calls = MaxRetries
    /\ \A i \in 1..retry.retries : ClaimRetryable(retry.script[i])

\* C15: when a call of the operation fails with an error that is not
\* retryable, callWithRetry throws that error at once, whatever number of
\* retryable failures came before: no delay follows and the operation is
\* not called again.
C15_FatalRethrown ==
    \A j \in 1..MaxRetries :
        (/\ retry.calls >= j
         /\ retry.script[j].kind = "error"
         /\ ~ClaimRetryable(retry.script[j]))
            => /\ retry.pc = "thrown"
               /\ retry.result = retry.script[j]
               /\ retry.calls = j
               /\ Len(retry.delays) = j - 1

\* A call has thrown an error that is not retryable after a retryable
\* failure and its delay.
C15_Witness ==
    /\ retry.pc = "thrown"
    /\ retry.calls = 2
    /\ ClaimRetryable(retry.script[1])
    /\ ~ClaimRetryable(retry.script[2])
    /\ Len(retry.delays) = 1

\* ------------------------------------------------ discovery of databases
DiscoveryDone == discovery.pc = "done"
FoundIds == [i \in 1..Len(discovery.result.dbs) |-> discovery.result.dbs[i].id]

\* The pages from the root down to x, x included, below the root.
TreeChain(x) ==
    LET pm == discovery.parent
    IN  IF pm[x] = RootPage THEN <<x>>
        ELSE IF pm[pm[x]] = RootPage THEN <<pm[x], x>>
        ELSE <<pm[pm[x]], pm[x], x>>

\* The pages whose listing has to succeed for x to be seen.
TreeAncestors(x) ==
    {RootPage} \cup {TreeChain(x)[i] : i \in 1..(Len(TreeChain(x)) - 1)}

TreePosition(x) == CHOOSE i \in DOMAIN discovery.order : discovery.order[i] = x

\* x comes before y in a depth-first walk that takes the blocks of a page in
\* the order of the listing: where the ways to x and y part, the way to x
\* takes the earlier block.
DepthFirstBefore(x, y) ==
    LET cx == TreeChain(x)
        cy == TreeChain(y)
        i  == CHOOSE k \in 1..Len(cx) :
                 /\ k <= Len(cy)
                 /\ cx[k] # cy[k]
                 /\ \A j \in 1..(k - 1) : cx[j] = cy[j]
    IN  TreePosition(cx[i]) < TreePosition(cy[i])

\* C16: when every listing succeeds, findAllDatabases returns every database
\* of the tree exactly once, those of later pagination pages included, in
\* depth-first order.
C16_AllDatabasesOnceDepthFirst ==
    (DiscoveryDone /\ discovery.failing = {}) =>
        /\ Len(FoundIds) = Cardinality(TreeDbs)
        /\ {FoundIds[i] : i \in DOMAIN FoundIds} = TreeDbs
        /\ \A i, j \in DOMAIN FoundIds :
              i < j => DepthFirstBefore(FoundIds[i], FoundIds[j])

\* A database sits on the second pagination page of a sub-page that is
\* listed before a database of the root, and the call returned all three.
C16_Witness ==
    /\ DiscoveryDone /\ discovery.failing = {}
    /\ Len(discovery.children["p1"]) = 2
    /\ discovery.parent["db3"] = "p1" /\ discovery.parent["db1"] = RootPage
    /\ TreePosition("p1") < TreePosition("db1")
    /\ FoundIds[Len(FoundIds)] = "db1" /\ Len(FoundIds) = 3

\* C17: when the listing of a page fails, findAllDatabases does not raise
\* and still returns every database under pages that were all read, those
\* listed before and after the failing page included.
C17_FailedListingKeepsOthers ==
    (DiscoveryDone /\ discovery.failing # {}) =>
        /\ ~discovery.result.raised
        /\ \A x \in TreeDbs :
              TreeAncestors(x) \cap discovery.failing = {}
                  => \E i \in DOMAIN FoundIds : FoundIds[i] = x

\* The listing of sub-page p1 fails; a database of the root is listed before
\* p1 and one after it, and both are returned.
C17_Witness ==
    /\ DiscoveryDone /\ discovery.failing = {"p1"}
    /\ discovery.parent["db1"] = RootPage /\ discovery.parent["db2"] = RootPage
    /\ discovery.parent["db3"] = "p1"
    /\ TreePosition("db1") < TreePosition("p1")
    /\ TreePosition("p1") < TreePosition("db2")
    /\ FoundIds = <<"db1", "db2">>

\* ------------------------------------------------- failing database query
\* C18: a failing query of a database, in exportDatabase or where runBackup
\* collects the ids of the database, does not abort the run.
C18_QueryFailureDoesNotAbort ==
    [][(pc \in {"db", "ids"}) => (outcome' # "aborted")]_vars

\* ---------------------------------------------------- failing download
\* A step of blocksToMarkdown in which downloadImage was called for u and
\* reported failure.
DownloadFailedStep(u) ==
    /\ pc = "blocks"
    /\ hist'.dl[u].calls = hist.dl[u].calls + 1
    /\ faults' = faults + 1

\* C19: when downloadImage reports failure for a URL, no name is set for
\* the URL in downloadedImages, the markdown gets the placeholder with the
\* URL, and blocksToMarkdown goes on to the next block or to the writing
\* of the file; the run is not aborted.
C19_FailedDownloadPlaceholder ==
    [][\A u \in Urls : DownloadFailedStep(u) =>
          /\ downloadedImages' = downloadedImages
          /\ markdown' = Append(markdown, [kind |-> "failed", url |-> u])
          /\ pc' \in {"blocks", "write"}
          /\ outcome' = outcome]_vars

\* The file of a document has been written with the placeholder of a URL
\* that has no name in downloadedImages.
C19_Witness ==
    /\ pc = "save"
    /\ \E u \in Urls :
          /\ downloadedImages[u] = NoName
          /\ hist.dl[u].failed
          /\ \E i \in DOMAIN files[CurPath].body :
                files[CurPath].body[i] = [kind |-> "failed", url |-> u]

\* --------------------------------------------------- the duplicate sweep
\* The names cleanupDuplicateImages groups: image files of the pattern.
ClaimGrouped(names) ==
    {n \in names : "ts" \in DOMAIN n
                   /\ n.ext \in {".jpg", ".jpeg", ".png", ".gif", ".webp"}}

\* n is the first name of its group in the order of the names as texts.
ClaimFirstOfGroup(n, names) ==
    \A m \in ClaimGrouped(names) :
        (m.ts = n.ts /\ m.ext = n.ext /\ m # n)
            => LexLess(CounterText(n.ctr), CounterText(m.ctr))

C21_RedirectsBounded == download.redirects < MaxRedirects

\* ------------------------------------------------------------ needsUpdate
\* The cases in which the page has to be exported, as the claim lists
\* them: no record, force, another marker, or the file of the record gone.
ClaimNeedsUpdate(d) ==
    IF backupState[d] = NoRec THEN TRUE
    ELSE \/ forceImageRedownload
         \/ backupState[d].lastModified # remote[d].marker
         \/ files[backupState[d].filePath] = NoFile

MarkdownDone == conversion.pc = "done"
EmittedIds == [i \in 1..Len(conversion.result.md) |-> conversion.result.md[i].id]
Emitted(b) == \E i \in DOMAIN EmittedIds : EmittedIds[i] = b

\* The blocks from the document down to b, b included.
RECURSIVE BlockChain(_)
BlockChain(b) ==
    IF conversion.parent[b] = TreeDoc THEN <<b>>
    ELSE Append(BlockChain(conversion.parent[b]), b)

\* The blocks whose children have to be listed for b to be seen.
BlockAncestors(b) == {BlockChain(b)[i] : i \in 1..(Len(BlockChain(b)) - 1)}

BlockPosition(b) == CHOOSE i \in DOMAIN conversion.order : conversion.order[i] = b

\* x comes before y in pre-order: x is above y, or where the ways from the
\* document to x and to y part, the way to x takes the earlier block.
PreOrderBefore(x, y) ==
    LET cx == BlockChain(x)
        cy == BlockChain(y)
    IN  IF x \in BlockAncestors(y) THEN TRUE
        ELSE IF y \in BlockAncestors(x) THEN FALSE
        ELSE LET i == CHOOSE k \in 1..Len(cx) :
                         /\ k <= Len(cy)
                         /\ cx[k] # cy[k]
                         /\ \A j \in 1..(k - 1) : cx[j] = cy[j]
             IN  BlockPosition(cx[i]) < BlockPosition(cy[i])

\* Every listing of the tree came in one response page.
OneResponsePage ==
    \A c \in DOMAIN conversion.children : Len(conversion.children[c]) = 1

\* C23: when no listing fails, the markdown holds the text of every root
\* block of the document and of every child of every block, those beyond
\* the first response page of a listing included.
C23_AllBlocksConverted ==
    (MarkdownDone /\ conversion.failing = {}) => \A b \in TreeBlocks : Emitted(b)

\* C24: when no listing fails, blocksToMarkdown emits the text of every
\* block exactly once, in pre-order of the tree in the order of the remote.
C24_PreOrderOnceEach ==
    (MarkdownDone /\ conversion.failing = {}) =>
        /\ Len(EmittedIds) = Cardinality(TreeBlocks)
        /\ \A i, j \in DOMAIN EmittedIds :
              i < j => /\ EmittedIds[i] # EmittedIds[j]
                       /\ PreOrderBefore(EmittedIds[i], EmittedIds[j])

\* The order of C24 on the trees whose listings all came in one response
\* page.
C24_PreOrderOnOnePage ==
    (MarkdownDone /\ conversion.failing = {} /\ OneResponsePage) =>
        /\ Len(EmittedIds) = Cardinality(TreeBlocks)
        /\ \A i, j \in DOMAIN EmittedIds :
              i < j => PreOrderBefore(EmittedIds[i], EmittedIds[j])

\* C25: when the listing of the children of a block fails, blocksToMarkdown
\* does not raise, emits the text of the block itself and nothing for the
\* blocks below it, and goes on with the blocks that follow the block in
\* the list it is converting.
C25_FailedChildrenSkipped ==
    (MarkdownDone /\ conversion.failing # {}) =>
        /\ ~conversion.result.raised
        /\ \A b \in TreeBlocks :
              BlockAncestors(b) \cap conversion.failing # {} => ~Emitted(b)
        /\ \A f \in conversion.failing, b \in TreeBlocks :
              LET page == ListResults(conversion.children[conversion.parent[f]])
              IN  (/\ Emitted(f)
                   /\ conversion.parent[b] = conversion.parent[f]
                   /\ \E i, j \in DOMAIN page : i < j /\ page[i] = f /\ page[j] = b)
                      => Emitted(b)

\* The listing of the children of b1 has failed: b1 itself is in the
\* markdown, its child b2 is not, and b3, which follows b1 in the document,
\* is.
C25_Witness ==
    /\ MarkdownDone /\ conversion.failing = {"b1"}
    /\ conversion.parent["b2"] = "b1" /\ conversion.parent["b3"] = TreeDoc
    /\ BlockPosition("b1") < BlockPosition("b3")
    /\ Emitted("b1") /\ ~Emitted("b2") /\ Emitted("b3")

\* ------------------------------------------------ the state file per page
\* C26: when exportPage has exported a document and the state file could
\* be written, the state file holds the record of the document that the
\* export put in backupState before, at the time exportDatabase goes on to
\* the next document.
C26_StateSavedAfterExport ==
    [][\A d \in Docs :
          (d \in hist'.exported /\ d \notin hist.exported /\ faults' = faults) =>
              /\ backupState[d] # NoRec
              /\ backupState[d].lastModified = remote[d].marker
              /\ backupState' = backupState
              /\ stateFile'.kind = "valid"
              /\ stateFile'.pages = backupState
              /\ pc' = "page"]_vars

\* Between two exports the state file holds the new record of a document
\* exported in this run, which differs from the record the run loaded.
C26_Witness ==
    /\ pc = "page" /\ pageIdx <= Len(allPages)
    /\ \E d \in hist.exported :
          /\ stateFile.kind = "valid"
          /\ backupState[d] # NoRec
          /\ stateFile.pages[d] = backupState[d]
          /\ hist.loaded[d] # NoRec
          /\ hist.loaded[d] # backupState[d]

\* ------------------------------------------------ who changes the records
\* C27: during a run the record of a document changes only when exportPage
\* has written the file of that document (the record is set) and when
\* cleanupOrphanedFiles deletes the record of a document that is not in
\* currentPageIds; skipped and failed exports, the downloads, the queries
\* and the duplicate sweep leave every record as it is.
C27_RecordsChangedByExportAndCleanup ==
    [][(pc # "idle" /\ pc' # "idle") =>
          \A d \in Docs :
              backupState'[d] # backupState[d] =>
                  \/ /\ pc = "write" /\ pc' = "save"
                     /\ d = CurDoc
                     /\ backupState'[d] # NoRec
                     /\ files'[backupState'[d].filePath] \notin {NoFile, PartialFile}
                  \/ /\ pc = "cleanup" /\ pc' = "sweep"
                     /\ d \notin currentPageIds
                     /\ backupState'[d] = NoRec]_vars

\* A run is past the sweep; one document was skipped and its record is
\* the one the run loaded, and the record of another document was set by
\* its export.
C27_Witness ==
    /\ pc = "final"
    /\ \E d \in hist.skipped :
          hist.loaded[d] # NoRec /\ backupState[d] = hist.loaded[d]
    /\ \E e \in hist.exported : backupState[e] # hist.loaded[e]

\* ------------------------------------------------- an image in the cache
\* blocksToMarkdown converts an image block whose URL has a name in
\* downloadedImages, the file of that name being in the pool.
KnownImageStep ==
    /\ pc = "blocks"
    /\ blockIdx' = blockIdx + 1
    /\ IF CurBlock.type = "image"
       THEN /\ downloadedImages[CurBlock.url] # NoName
            /\ downloadedImages[CurBlock.url] \in PoolNames(pool)
       ELSE FALSE

\* C28: for an image block whose URL is in downloadedImages and whose
\* cached file exists, blocksToMarkdown emits the link to the cached name
\* and downloads nothing; downloadedImages, the counter and the pool stay
\* as they are.
C28_CachedImageReused ==
    [][KnownImageStep =>
          /\ markdown' = Append(markdown,
                [kind |-> "link", name |-> downloadedImages[CurBlock.url]])
          /\ hist'.dl = [hist.dl EXCEPT ![CurBlock.url].refs = hist'.dl[CurBlock.url].refs]
          /\ downloadedImages' = downloadedImages
          /\ counter' = counter
          /\ pool' = pool]_vars

\* The second image block of a document has the URL of the first one: the
\* markdown has the same link twice after one download.
C28_Witness ==
    /\ pc \in {"blocks", "write"}
    /\ Len(markdown) >= 2
    /\ markdown[1].kind = "link" /\ markdown[2] = markdown[1]
    /\ hist.dl["u1"].calls = 1
    /\ counter = 2

\* ------------------------------------------------- the delays of a call
\* C29: in one call of callWithRetry the delay after the k-th retryable
\* failure is the base times 2^k, each delay is the double of the one
\* before, and there are at most retries - 1 delays.
C29_BackoffDoubles ==
    retry.pc # "idle" =>
        /\ \A k \in DOMAIN retry.delays :
              /\ retry.delays[k] = 1000 * (2 ^ k)
              /\ k > 1 => retry.delays[k] = 2 * retry.delays[k - 1]
        /\ Len(retry.delays) <= retry.retries - 1

\* A call with three attempts has met three retryable failures: it waited
\* 2000 and 4000 milliseconds and threw the last error.
C29_Witness ==
    /\ retry.pc = "thrown"
    /\ retry.retries = 3
    /\ retry.delays = <<2000, 4000>>

\* ------------------------------------------------ the count of failures
\* C30: a document whose export raised is counted neither as exported nor
\* as skipped.
C30_FailedNotCounted ==
    [][hist'.failed # hist.failed =>
          /\ stats'.skippedCount = stats.skippedCount
          /\ stats'.exportedCount = stats.exportedCount]_vars

\* ---------------------------------------------------------------- C31
\* C31: the number cleanupOrphanedFiles returns is the number of records it
\* removed: one for every record whose id is absent from currentPageIds,
\* also when the file of that record was already missing.
C31_CountsRemovedRecords ==
    [][(pc = "cleanup" /\ pc' = "sweep")
          => stats'.cleanedUp = Cardinality(hist'.removed)]_vars

\* ---------------------------------------------------------------- C32
\* A run of two or more whitespace characters in a name.
WhitespaceRun(name) ==
    \E i \in 1..(Len(name) - 1) :
        name[i] \in {" ", "\t", "\n"} /\ name[i + 1] \in {" ", "\t", "\n"}

\* C32: for every title, the name generateSafeFilename returns holds none
\* of the characters < > : " / \ | ? *, holds no run of two or more
\* whitespace characters, and is at most 200 characters long.
C32_SafeFilename ==
    naming.pc = "done" =>
        /\ \A i \in 1..Len(naming.result) :
              naming.result[i] \notin {"<", ">", ":", "\"", "/", "\\", "|", "?", "*"}
        /\ ~WhitespaceRun(naming.result)
        /\ Len(naming.result) <= 200

\* A title of more than 200 characters with an illegal character and a run
\* of whitespace gave a name of 200 characters.
C32_Witness ==
    /\ naming.pc = "done"
    /\ Len(naming.title) > 200
    /\ \E i \in 1..Len(naming.title) : naming.title[i] = ":"
    /\ WhitespaceRun(naming.title)
    /\ Len(naming.result) = 200

\* ---------------------------------------------------------------- C33
\* The names of the Attachments/<name> references in a document file.
ReferencedNames(f) ==
    IF "body" \in DOMAIN f
    THEN {f.body[i].name : i \in {k \in 1..Len(f.body) : f.body[k].kind = "link"}}
    ELSE {}

\* C33: after a complete run without a fault, every Attachments/<name>
\* reference of a document file written in that run names a file of the
\* pool.
C33_ReferencesResolve ==
    (RunComplete /\ ~hist.fault)
        => \A p \in hist.written : ReferencedNames(files[p]) \subseteq PoolNames(pool)

\* ---------------------------------------------------------------- C34
\* C34: no two records of state.pages hold the same filePath.
C34_DistinctRecordPaths ==
    \A d, e \in Docs :
        (d # e /\ backupState[d] # NoRec /\ backupState[e] # NoRec)
            => backupState[d].filePath # backupState[e].filePath

\* ---------------------------------------------------------------- C35
\* cleanupOrphanedFiles has run in this step.
CleanupStep == pc = "cleanup" /\ pc' = "sweep"

\* The record of d and the file it names are as they were.
Untouched(d) ==
    /\ backupState'[d] = backupState[d]
    /\ (backupState[d] # NoRec /\ files[backupState[d].filePath] # NoFile)
           => files'[backupState[d].filePath] # NoFile

\* C35: cleanupOrphanedFiles leaves untouched every record whose id is in
\* currentPageIds, and the file of that record.
C35_CurrentUntouched ==
    [][CleanupStep => \A d \in currentPageIds : Untouched(d)]_vars

\* The same, for the calls in which no two records hold the same filePath.
C35_CurrentUntouchedOnDistinctPaths ==
    [][(CleanupStep /\ C34_DistinctRecordPaths)
          => \A d \in currentPageIds : Untouched(d)]_vars

\* ---------------------------------------------------------------- C36
\* C36: a run whose discovery returns no collection (the root container
\* could not be read) ends without deleting a document file or an
\* attachment and without modifying the state file and its records.
C36_EarlyReturnTouchesNothing ==
    [][(pc = "idle" /\ runs' = runs + 1 /\ outcome' = "early")
          => /\ files' = files
             /\ pool' = pool
             /\ stateFile' = stateFile]_vars

\* A run over an existing backup could not read the root container and
\* returned early; the records, their files and the attachments are there.
C36_Witness ==
    /\ pc = "idle" /\ outcome = "early" /\ hist.since = NoChange
    /\ hist.fault
    /\ pool # {}
    /\ \E d \in Docs :
          /\ stateFile.pages[d] # NoRec
          /\ files[stateFile.pages[d].filePath] # NoFile

\* ---------------------------------------------------------------- C37
\* The records whose id is not in currentPageIds.
ClaimOrphans == {d \in Docs : backupState[d] # NoRec /\ d \notin currentPageIds}

\* The file of the record of d was there and the call has not deleted it.
UnlinkFailedFor(d) ==
    /\ files[backupState[d].filePath] # NoFile
    /\ files'[backupState[d].filePath] # NoFile

\* C37: when the deletion of the file of an orphan fails,
\* cleanupOrphanedFiles does not raise, keeps the record of that orphan
\* (which so is an orphan with a file for the next call) and goes on with
\* the other records: their files are gone and their records removed.
C37_FailedUnlinkKeepsRecord ==
    [][(pc = "cleanup" /\ outcome' # "killed")
          => /\ pc' = "sweep"
             /\ outcome' = "running"
             /\ currentPageIds' = currentPageIds
             /\ \A d \in ClaimOrphans :
                   IF UnlinkFailedFor(d)
                   THEN backupState'[d] = backupState[d]
                   ELSE /\ backupState'[d] = NoRec
                        /\ files'[backupState[d].filePath] = NoFile]_vars

\* A call with two orphans has failed to delete the file of one, kept its
\* record, and removed the file and the record of the other.
C37_Witness ==
    /\ pc = "sweep"
    /\ hist.unlinkFailed # {}
    /\ \E d, e \in hist.orphans :
          /\ d # e
          /\ backupState[d] # NoRec
          /\ backupState[d].filePath \in hist.unlinkFailed
          /\ files[backupState[d].filePath] # NoFile
          /\ backupState[e] = NoRec
          /\ e \in hist.removed
    /\ stats.cleanedUp >= 1

\* On the runs of the backup: a file whose deletion failed in a complete
\* run, with nothing changed since, is the file of an orphan when the next
\* run comes to cleanupOrphanedFiles.
C37_RetriedNextRun ==
    [][(pc = "cleanup" /\ pc' = "sweep")
          => \A q \in hist.basis.unlink :
                \E d \in ClaimOrphans : backupState[d].filePath = q]_vars

\* ---------------------------------------------------------------- C38
\* The paths that hold a document file written by exportPage.
DocumentFiles == {q \in AllPaths : "doc" \in DOMAIN files[q]}

\* C38: after a complete run, with no fault in any run, every document
\* file under the backup root is the filePath of a record of the state.
C38_EveryFileTracked ==
    (RunComplete /\ faults = 0)
        => \A q \in DocumentFiles :
              \E d \in Docs : /\ stateFile.pages[d] # NoRec
                              /\ stateFile.pages[d].filePath = q

\* ---------------------------------------------------------------- C39
\* C39: during a run, every file that a download of the run has created
\* in the attachment pool is the target of a mapping of downloadedImages:
\* a download that reports failure leaves no file.
C39_FailedDownloadLeavesNoFile ==
    pc # "idle" =>
        \A u \in Urls :
            \A n \in hist.dl[u].created \cap PoolNames(pool) :
                \E v \in Urls : downloadedImages[v] = n

\* ---------------------------------------------------------------- C40
\* The promises started for a title, and those that went on to create.
LookupsFor(title) ==
    {t \in Callers : lookup.promise[t].state # "none" /\ lookup.promise[t].title = title}

CreationsFor(title) == {t \in LookupsFor(title) : lookup.promise[t].created}

\* The callers that have received an id for a path of this title.
ReceivedFor(title) ==
    {t \in Callers : /\ lookup.caller[t].at = "got"
                     /\ (IF lookup.caller[t].path = "." THEN "Root"
                         ELSE lookup.caller[t].path) = title}

\* C40: whatever the interleaving of the calls for one path (one title),
\* the remote lookup and createNotionDatabase are performed at most once,
\* and all callers receive the same database id.
C40_OneLookupOneId ==
    \A title \in {"Root", "notes"} :
        /\ Cardinality(LookupsFor(title)) <= 1
        /\ Cardinality(CreationsFor(title)) <= 1
        /\ \A t, u \in ReceivedFor(title) : lookup.caller[t].id = lookup.caller[u].id

\* Three callers asked for the same path while the lookup was in flight;
\* the database was created once and all three received its id.
C40_Witness ==
    /\ \A t \in Callers : lookup.caller[t].at = "got" /\ lookup.caller[t].path = "notes"
    /\ \E t, u \in Callers : t # u /\ lookup.caller[t].joined /\ lookup.caller[u].joined
    /\ Cardinality(CreationsFor("notes")) = 1
    /\ \A t \in Callers : lookup.caller[t].id.by \in Callers

====
